---- MODULE Spec2Model ----
(***************************************************************************)
(* Frame-pool pipeline of videoMusic: useVideoFrames (pool manager and     *)
(* viewport resampler), videoFrame.ts (sampler, sprite packer, grid        *)
(* mapping), storageHelper.ts (quota-aware cache writes) and the watchers  *)
(* of VideoFramesViewer.vue that drive them.                               *)
(*                                                                         *)
(* Grain of atomicity: JavaScript is single-threaded, so one action is the *)
(* code that runs between two suspension points (await) of one async call. *)
(* A storage operation (getItem, setItem, removeItem, the key scan of       *)
(* cleanupOldestCache) takes effect atomically when its await resumes.     *)
(* Storage reads and removes are taken to succeed (their catch blocks are  *)
(* empty); writes succeed, fail on quota, or fail otherwise.               *)
(*                                                                         *)
(* Spec follows the pool manager; in it one setItemWithQuotaHandling is    *)
(* one step.  SpecStore follows setItemWithQuotaHandling and               *)
(* cleanupOldestCache await by await, and there a storage call of the      *)
(* eviction pass may reject.  PassAgrees ties the two together.            *)
(***************************************************************************)
EXTENDS Integers, Sequences, FiniteSets, TLC

(***************************************************************************)
(* Bounds of the model                                                     *)
(***************************************************************************)
\* number of initializeVideoFrames invocations in one session
MaxCalls == 2
\* number of 1 ms clock advances in one session
MaxTicks == 1
\* number of operations (a Sampler call, a Packer run, a cache write) that
\* the environment lets fail in one session
MaxFaults == 1
\* number of viewport-resize events in one session
MaxResizes == 2

(***************************************************************************)
(* Program constants                                                       *)
(***************************************************************************)
frameHeight == 80
VIDEO_FRAME_CACHE_EXPIRE == 7200 * 1000
SPRITE_CACHE_EXPIRE == 3600 * 1000
FRAME_SURPLUS == 5
\* window.screen.width of the machine the session runs on
ScreenWidth == 780

(***************************************************************************)
(* Inputs                                                                  *)
(***************************************************************************)
NoUrl == ""
Urls == {"a", "b"}
\* the video behind each source: "a" is long, "b" is shorter than 10 s
VideoOf(url) ==
  IF url = "a"
  THEN [videoWidth |-> 1920, videoHeight |-> 1080, durationMs |-> 60000, hasAudio |-> TRUE]
  ELSE [videoWidth |-> 640, videoHeight |-> 480, durationMs |-> 3000, hasAudio |-> FALSE]
\* clientWidth of the frame container
ContainerWidths == {300}
\* age (ms) of the records a previous session left in the store
PriorAges == {SPRITE_CACHE_EXPIRE - 1, SPRITE_CACHE_EXPIRE, VIDEO_FRAME_CACHE_EXPIRE}

Null == [null |-> TRUE]
Hole == [hole |-> TRUE]

Max(a, b) == IF a >= b THEN a ELSE b
Min(a, b) == IF a <= b THEN a ELSE b
CeilDiv(a, b) == (a + b - 1) \div b

(***************************************************************************)
(* Cache keys (useVideoFrames.ts 426-432): kind, source and strategy; the  *)
(* version tag and frameHeight are the same in every key of a session.     *)
(***************************************************************************)
Kinds == {"meta", "sprite", "orig"}
Modes == {"serial", "concurrent"}
modeSuffix(isConcurrent) == IF isConcurrent THEN "concurrent" ELSE "serial"
videoMetaCacheKey(url, isConcurrent) == <<"meta", url, modeSuffix(isConcurrent)>>
spriteCacheKey(url, isConcurrent) == <<"sprite", url, modeSuffix(isConcurrent)>>
originalFramesCacheKey(url, isConcurrent) == <<"orig", url, modeSuffix(isConcurrent)>>
Keys == Kinds \X Urls \X Modes
\* position of a key in storage.keys(), which lists keys in string order:
\* "video_meta_.." < "video_original_frames_.." < "video_sprite_..", then the
\* source, then "concurrent" < "serial"
KeyRank(k) ==
  (CASE k[1] = "meta" -> 0 [] k[1] = "orig" -> 4 [] OTHER -> 8)
  + (IF k[2] = "a" THEN 0 ELSE 2)
  + (IF k[3] = "concurrent" THEN 0 ELSE 1)

(***************************************************************************)
(* calculateTotalFrames (useVideoFrames.ts 410-421).  The aspect ratio is  *)
(* the exact fraction w/h; MAX_SCREEN_WIDTH = screen.width * 1.2.          *)
(***************************************************************************)
\* mutant of calculateTotalFramesOn: no upper limit
calculateTotalFramesOn_uncapped(screenWidth, w, h) ==
  LET num == IF w > 10 * h THEN 10 ELSE IF 10 * w < h THEN 1 ELSE w
      den == IF w > 10 * h THEN 1 ELSE IF 10 * w < h THEN 10 ELSE h
      baseFrames == CeilDiv(screenWidth * 12 * den, 10 * frameHeight * num)
      totalFrames == baseFrames + FRAME_SURPLUS
  IN  Max(totalFrames, 10)

\* for window.screen.width = screenWidth and the aspect ratio w/h (w, h >= 0,
\* not both 0: 0/0 is NaN, which is no ratio)
calculateTotalFramesOn(screenWidth, w, h) ==
  LET \* safeAspectRatio = max(0.1, min(w/h, 10)) as a fraction num/den
      num == IF w > 10 * h THEN 10 ELSE IF 10 * w < h THEN 1 ELSE w
      den == IF w > 10 * h THEN 1 ELSE IF 10 * w < h THEN 10 ELSE h
      \* ceil((screenWidth * 12/10) / (frameHeight * num/den))
      baseFrames == CeilDiv(screenWidth * 12 * den, 10 * frameHeight * num)
      totalFrames == baseFrames + FRAME_SURPLUS
  IN  Max(Min(totalFrames, 50), 10)

calculateTotalFrames(w, h) == calculateTotalFramesOn(ScreenWidth, w, h)

(***************************************************************************)
(* Frame sampler, seen from the pool manager: the value an extraction      *)
(* resolves to, given the set of sample indices whose seek or draw failed. *)
(* A frame's pixels are determined by the video and the sample it was      *)
(* taken at: [v, i, n] is sample i of n of video v.                        *)
(***************************************************************************)
adjustedFrameCount(durationMs, frameCount) ==
  IF durationMs < 10000
  THEN Max(5, Min(frameCount, (durationMs \div 500) + 1))
  ELSE frameCount

Frame(url, i, n) == [v |-> url, i |-> i, n |-> n]

VideoFramesResult(url, frames) ==
  [frames |-> frames,
   aspectW |-> VideoOf(url).videoWidth, aspectH |-> VideoOf(url).videoHeight,
   frameWidth |-> VideoOf(url).videoWidth, frameHeight |-> VideoOf(url).videoHeight,
   durationMs |-> VideoOf(url).durationMs]

\* serial: a failed sample is skipped (continue), so later frames move up;
\* no frame at all rejects the call
getVideoFramesSerial(url, frameCount, failed) ==
  LET n == adjustedFrameCount(VideoOf(url).durationMs, frameCount)
      idx == SelectSeq([k \in 1..n |-> k - 1], LAMBDA i : i \notin failed)
      frames == [k \in 1..Len(idx) |-> Frame(url, idx[k], n)]
  IN  IF Len(frames) = 0 THEN Null ELSE VideoFramesResult(url, frames)

\* concurrent: frames is preallocated with n slots, a failed task leaves a hole
getVideoFramesConcurrent(url, frameCount, failed) ==
  LET n == adjustedFrameCount(VideoOf(url).durationMs, frameCount)
      frames == [k \in 1..n |-> IF (k - 1) \in failed THEN Hole ELSE Frame(url, k - 1, n)]
  IN  VideoFramesResult(url, frames)

getVideoFramesFn(isConcurrent, url, frameCount, failed) ==
  IF isConcurrent THEN getVideoFramesConcurrent(url, frameCount, failed)
  ELSE getVideoFramesSerial(url, frameCount, failed)

\* per-frame failure patterns tried for an extraction of n samples
FailPatterns(n) == {{}, 0..(n - 1)}

(***************************************************************************)
(* createSpriteImage (videoFrame.ts 338-443).  The sprite image is the     *)
(* row-major sequence of its cells, each Blank or the frame painted there. *)
(***************************************************************************)
Blank == [blank |-> TRUE]
\* a canvas whose width or height is 0, and one that drawImage throws on
ZeroSized == [zeroSized |-> TRUE]
Broken == [broken |-> TRUE]
\* the frames the loop paints: present (391), not zero-sized (403), drawn
\* without an exception (408-412)
Paintable(frame) == frame \notin {Hole, ZeroSized, Broken}
EmptySheet == [spriteUrl |-> <<>>, rows |-> 0, cols |-> 0]
PackEnvs == {"ok", "noContext", "encodeFailed"}

\* mutant of createSpriteImage: cols is not capped by the number of frames
createSpriteImage_uncapped(frames, fw0, fh0, cols0, env) ==
  IF Len(frames) = 0 THEN EmptySheet
  ELSE
    LET cols == Max(1, cols0)
        rows == CeilDiv(Len(frames), cols)
        valid == {i \in 0..(Len(frames) - 1) : Paintable(frames[i + 1])}
        cellOf(i) == (i \div cols) * cols + (i % cols) + 1
        image == [p \in 1..(rows * cols) |->
                    IF \E i \in valid : cellOf(i) = p
                    THEN frames[(CHOOSE i \in valid : cellOf(i) = p) + 1]
                    ELSE Blank]
    IN  IF env = "noContext" THEN EmptySheet
        ELSE IF valid = {} THEN EmptySheet
        ELSE IF env = "encodeFailed" THEN EmptySheet
        ELSE [spriteUrl |-> image, rows |-> rows, cols |-> cols]

\* mutant of createSpriteImage: a sheet nothing was painted on is encoded too
createSpriteImage_noValidCheck(frames, fw0, fh0, cols0, env) ==
  IF Len(frames) = 0 THEN EmptySheet
  ELSE
    LET cols == Max(1, Min(IF cols0 = 0 THEN 1 ELSE cols0, Len(frames)))
        rows == CeilDiv(Len(frames), cols)
        valid == {i \in 0..(Len(frames) - 1) : Paintable(frames[i + 1])}
        cellOf(i) == (i \div cols) * cols + (i % cols) + 1
        image == [p \in 1..(rows * cols) |->
                    IF \E i \in valid : cellOf(i) = p
                    THEN frames[(CHOOSE i \in valid : cellOf(i) = p) + 1]
                    ELSE Blank]
    IN  IF env = "noContext" THEN EmptySheet
        ELSE IF env = "encodeFailed" THEN EmptySheet
        ELSE [spriteUrl |-> image, rows |-> rows, cols |-> cols]

\* mutant of createSpriteImage: the painted frames fill the cells one after
\* the other, so a skipped entry moves every later frame up
createSpriteImage_closesGaps(frames, fw0, fh0, cols0, env) ==
  IF Len(frames) = 0 THEN EmptySheet
  ELSE
    LET cols == Max(1, Min(IF cols0 = 0 THEN 1 ELSE cols0, Len(frames)))
        rows == CeilDiv(Len(frames), cols)
        valid == {i \in 0..(Len(frames) - 1) : Paintable(frames[i + 1])}
        cellOf(i) == Cardinality({j \in valid : j < i}) + 1
        image == [p \in 1..(rows * cols) |->
                    IF \E i \in valid : cellOf(i) = p
                    THEN frames[(CHOOSE i \in valid : cellOf(i) = p) + 1]
                    ELSE Blank]
    IN  IF env = "noContext" THEN EmptySheet
        ELSE IF valid = {} THEN EmptySheet
        ELSE IF env = "encodeFailed" THEN EmptySheet
        ELSE [spriteUrl |-> image, rows |-> rows, cols |-> cols]

createSpriteImage(frames, fw0, fh0, cols0, env) ==
  IF Len(frames) = 0 THEN EmptySheet
  ELSE
    LET cols == Max(1, Min(IF cols0 = 0 THEN 1 ELSE cols0, Len(frames)))
        rows == CeilDiv(Len(frames), cols)
        valid == {i \in 0..(Len(frames) - 1) : Paintable(frames[i + 1])}
        cellOf(i) == (i \div cols) * cols + (i % cols) + 1
        image == [p \in 1..(rows * cols) |->
                    IF \E i \in valid : cellOf(i) = p
                    THEN frames[(CHOOSE i \in valid : cellOf(i) = p) + 1]
                    ELSE Blank]
    IN  IF env = "noContext" THEN EmptySheet
        ELSE IF valid = {} THEN EmptySheet
        ELSE IF env = "encodeFailed" THEN EmptySheet
        ELSE [spriteUrl |-> image, rows |-> rows, cols |-> cols]

(***************************************************************************)
(* calculateFramePosition (videoFrame.ts 454-488)                          *)
(***************************************************************************)
\* mutant of calculateFramePosition: row and col exchanged
calculateFramePosition_swapped(index0, cols0, fw0, fh0, totalFrames) ==
  LET index1 == IF index0 < 0 THEN 0 ELSE index0
      cols == IF cols0 < 1 THEN 1 ELSE cols0
      fw == IF fw0 < 1 THEN 1 ELSE fw0
      fh == IF fh0 < 1 THEN 1 ELSE fh0
      index == IF totalFrames > 0 THEN Min(index1, totalFrames - 1) ELSE index1
      row == index % cols
      col == index \div cols
  IN  [row |-> row, col |-> col, dataThumb |-> <<index, row, col, fw, fh>>]

calculateFramePosition(index0, cols0, fw0, fh0, totalFrames) ==
  LET index1 == IF index0 < 0 THEN 0 ELSE index0
      cols == IF cols0 < 1 THEN 1 ELSE cols0
      fw == IF fw0 < 1 THEN 1 ELSE fw0
      fh == IF fh0 < 1 THEN 1 ELSE fh0
      index == IF totalFrames > 0 THEN Min(index1, totalFrames - 1) ELSE index1
      row == index \div cols
      col == index % cols
  IN  [row |-> row, col |-> col, dataThumb |-> <<index, row, col, fw, fh>>]


(***************************************************************************)
(* Viewport resampling of sampleFramesFromPool (useVideoFrames.ts 641-672, *)
(* 692-720), for a pool record meta and a container width.                 *)
(***************************************************************************)
\* mutant of needFrameCount: the quotient is rounded down
needFrameCount_floor(meta, containerWidth) ==
  Max(1, (containerWidth * meta.aspectH) \div (frameHeight * meta.aspectW))

\* needFrameCount = max(1, ceil(containerWidth / (frameHeight * aspect)))
needFrameCount(meta, containerWidth) ==
  Max(1, CeilDiv(containerWidth * meta.aspectH, frameHeight * meta.aspectW))

actualNeed(meta, containerWidth) ==
  Min(needFrameCount(meta, containerWidth), meta.totalFrames)

\* Math.floor((i / denominator) * (totalFrames - 1)) in IEEE 754 binary64,
\* for 0 <= i <= denominator.  The quotient q = i / denominator is rounded to
\* 53 significant bits: with 2^-t <= i/denominator < 2^(1-t) and
\* s = MantissaBits + t, q = Q / 2^s where Q is the integer nearest to
\* i * 2^s / denominator, and rem = (i * 2^s) mod denominator is what the
\* rounding drops (2 * rem < denominator) or adds (2 * rem > denominator).
\* When the exact product i * m / denominator is not an integer it is at least
\* 1/denominator away from one, and the two roundings cannot move it across.
\* When it is an integer K and q was rounded down, q * m lies below K by
\* rem * m / (denominator * 2^s); the product rounds back to K exactly when
\* that is at most half the distance from K to the next double below it,
\* which is 2^(e - MantissaBits) for 2^e < K < 2^(e+1) and half of that for
\* K = 2^e.
MantissaBits == 52

RECURSIVE Pow2(_)
Pow2(n) == IF n = 0 THEN 1 ELSE 2 * Pow2(n - 1)

RECURSIVE Pow2Mod(_, _)
Pow2Mod(n, d) == IF n = 0 THEN 1 % d ELSE (2 * Pow2Mod(n - 1, d)) % d

RECURSIVE Log2(_)
Log2(k) == IF k < 2 THEN 0 ELSE 1 + Log2(k \div 2)

RECURSIVE Shift(_, _)
Shift(i, d) == IF i >= d THEN 0 ELSE 1 + Shift(2 * i, d)

frameIndex(i, denominator, totalFrames) ==
  LET m == totalFrames - 1
      K == (i * m) \div denominator
      t == Shift(i, denominator)
      rem == ((i % denominator) * Pow2Mod(MantissaBits + t, denominator)) % denominator
      e == Log2(K)
      halfGap == IF K > Pow2(e) THEN 2 ELSE 4
  IN  IF i = 0 \/ m = 0 \/ (i * m) % denominator # 0 THEN K
      ELSE IF rem = 0 \/ 2 * rem >= denominator THEN K
      ELSE IF halfGap * rem * m <= denominator * Pow2(t + e) THEN K
      ELSE K - 1

\* mutant of selectedIndexes: the positions are spread over need, not need - 1
selectedIndexes_overNeed(meta, containerWidth) ==
  LET need == actualNeed(meta, containerWidth)
  IN  [k \in 1..need |-> frameIndex(k - 1, need, meta.totalFrames)]

selectedIndexes(meta, containerWidth) ==
  LET need == actualNeed(meta, containerWidth)
      denominator == Max(1, need - 1)
  IN  [k \in 1..need |-> frameIndex(k - 1, denominator, meta.totalFrames)]

framesDataOf(meta, containerWidth, spriteInfo) ==
  LET sel == selectedIndexes(meta, containerWidth)
  IN  [k \in 1..Len(sel) |->
        LET position == calculateFramePosition(sel[k], spriteInfo.cols,
                          meta.frameWidth, meta.frameHeight, meta.totalFrames)
        IN  [index |-> k - 1, row |-> position.row, col |-> position.col,
             dataThumb |-> position.dataThumb]]

spriteRenderOf(meta, spriteInfo) ==
  [url |-> spriteInfo.spriteUrl, frameWidth |-> meta.frameWidth,
   frameHeight |-> meta.frameHeight, cols |-> spriteInfo.cols, rows |-> spriteInfo.rows]

(***************************************************************************)
(* cleanupOldestCache (storageHelper.ts 25-66) on a store st: the store    *)
(* after the pass.  Only entries that carry a numeric timestamp are        *)
(* candidates; the array stored under an "orig" key carries none.          *)
(***************************************************************************)
HasTimestamp(v) == v # Null /\ "timestamp" \in DOMAIN v

cacheItems(st) == {k \in Keys : HasTimestamp(st[k])}

\* order after cacheItems.sort: by timestamp, ties in keys() order
SortedBefore(st, j, k) ==
  \/ st[j].timestamp < st[k].timestamp
  \/ st[j].timestamp = st[k].timestamp /\ KeyRank(j) < KeyRank(k)

\* Math.max(minDeleteItems, Math.ceil(cacheItems.length * 0.2))
itemsToDelete(n) == Max(1, CeilDiv(n * 2, 10))

evicted(st) ==
  {k \in cacheItems(st) :
     Cardinality({j \in cacheItems(st) : SortedBefore(st, j, k)})
       < itemsToDelete(Cardinality(cacheItems(st)))}

cleanupOldestCache(st) ==
  [k \in Keys |-> IF k \in evicted(st) THEN Null ELSE st[k]]


Calls == 1..MaxCalls

(***************************************************************************)
(* State                                                                   *)
(***************************************************************************)
VARIABLES
  videoUrl,        \* props.videoUrl (videoUrlRef)
  useConcurrent,   \* the strategy checkbox of VideoFramesViewer
  preloaded,       \* TRUE when the parent passes preloadedMetadata
  containerWidth,  \* frameContainer.clientWidth
  fullFrameMeta,   \* the in-memory pool, Null when empty
  poolKey,         \* history: the (source, strategy) fullFrameMeta was set for
  frameData,       \* the DisplayFrames handed to the template
  spriteData,      \* the sprite handed to the template, Null when none
  isLoading,       \* the loading indicator
  store,           \* videoFrameStore: key -> record, Null when absent
  now,             \* Date.now(), ms since the session started
  faults,          \* number of operations the environment has let fail
  calls,           \* the initializeVideoFrames invocations and their locals
  sh,              \* the activation of setItemWithQuotaHandling followed step by step
  rs,              \* throttledSample: the throttle and the resamples it has started
  fn,              \* a pure function of the pipeline, its arguments and its value
  sm               \* one run of a frame sampler followed seek by seek

vars == <<videoUrl, useConcurrent, preloaded, containerWidth, fullFrameMeta,
          poolKey, frameData, spriteData, isLoading, store, now, faults, calls, sh,
          rs, fn, sm>>

NoAge == 0 - 1
AgeOf(stored, t) == IF stored = Null THEN NoAge ELSE t - stored.timestamp

IdleCall ==
  [pc |-> "idle", keyUrl |-> NoUrl, isConcurrent |-> FALSE,
   cachedMeta |-> Null, cachedSprite |-> Null, argUrl |-> NoUrl,
   duration |-> 0, totalFrames |-> 0, metaData |-> Null, sprite |-> Null,
   nframes |-> 0, spriteDataCache |-> Null,
   smeta |-> Null, scw |-> 0, skey |-> <<>>,
   ret |-> Null, outcome |-> "none",
   \* history of the call: the age of each record at its read (NoAge when
   \* absent, kept until the hit test), Sampler probes, full extractions,
   \* Packer runs, the kinds of record whose setItemWithQuotaHandling
   \* returned true, and the kinds of record the read step did not accept
   metaAge |-> NoAge, spriteAge |-> NoAge,
   nProbe |-> 0, nFull |-> 0, nPack |-> 0, wok |-> {}, missed |-> {},
   \* and the lengths of the frames arrays the probe and the full extraction
   \* resolved with
   probeFrames |-> 0, fullFrames |-> 0]

\* a finished call keeps its key, its return value and its history
Finished(rec) ==
  [IdleCall EXCEPT !.pc = "done", !.keyUrl = rec.keyUrl,
     !.isConcurrent = rec.isConcurrent, !.ret = rec.ret, !.outcome = rec.outcome,
     !.nProbe = rec.nProbe, !.nFull = rec.nFull, !.nPack = rec.nPack,
     !.wok = rec.wok, !.missed = rec.missed,
     !.probeFrames = rec.probeFrames, !.fullFrames = rec.fullFrames]

KeyOf(rec) == <<rec.keyUrl, modeSuffix(rec.isConcurrent)>>
CurrentKey == <<videoUrl, modeSuffix(useConcurrent)>>

StoreGet(st, k) == IF k \in Keys THEN st[k] ELSE Null

\* the locals of setItemWithQuotaHandling and of the cleanupOldestCache it
\* calls, with the history of the activation: the store at the call
\* (before), the setItem calls made (attempts), the eviction passes started
\* (passes), whether the pass ran to its end (passDone), the outcome of each
\* setItem (first, second), the value returned (result) and whether an
\* exception left the function (threw)
IdleHelper ==
  [pc |-> "idle", key |-> <<>>, value |-> Null, keys |-> <<>>, cacheItems |-> <<>>,
   i |-> 0, attempts |-> 0, passes |-> 0, passDone |-> FALSE,
   first |-> "none", second |-> "none", result |-> "none", threw |-> FALSE,
   before |-> [k \in Keys |-> Null]]

\* throttledSample (733-736): the state of the lodash throttle (idle: the
\* next call runs at once; wait: a call within the last 16 ms ran, nothing
\* is deferred; pending: a call is deferred to the end of the 16 ms), the
\* sampleFramesFromPool activations it started, and the history of the
\* session: resize events seen, invocations of the throttled function made
Resamples == 1..MaxResizes
IdleRun == [pc |-> "idle", smeta |-> Null, scw |-> 0, skey |-> <<>>]
IdleResize ==
  [throttle |-> "idle", events |-> 0, invoked |-> 0,
   runs |-> [r \in Resamples |-> IdleRun]]

\* no pure function has been applied
IdleFn == [op |-> "none"]
IdleSampler == [mode |-> "none"]

FreeSlots == {c \in Calls : calls[c].pc = "idle"}
NextSlot == CHOOSE c \in FreeSlots : \A d \in FreeSlots : c <= d

(***************************************************************************)
(* The store a previous session may have left behind: nothing, or the      *)
(* records of one complete pool build of source "a" (serial strategy),     *)
(* possibly without the FramePool record (evicted as the oldest entry).    *)
(***************************************************************************)
EmptyStore == [k \in Keys |-> Null]

BuiltMeta(url, total, duration, t, audio) ==
  [aspectW |-> VideoOf(url).videoWidth, aspectH |-> VideoOf(url).videoHeight,
   frameWidth |-> VideoOf(url).videoWidth, frameHeight |-> VideoOf(url).videoHeight,
   totalFrames |-> total, durationMs |-> duration, timestamp |-> t,
   hasAudio |-> audio]

BuiltSprite(meta, spriteInfo, t) ==
  [spriteInfo |-> spriteInfo, aspectW |-> meta.aspectW, aspectH |-> meta.aspectH,
   frameWidth |-> meta.frameWidth, frameHeight |-> meta.frameHeight,
   totalFrames |-> meta.totalFrames, timestamp |-> t]

PriorStore(age, kinds) ==
  LET url == "a"
      total == calculateTotalFrames(VideoOf(url).videoWidth, VideoOf(url).videoHeight)
      full == getVideoFramesSerial(url, total, {})
      meta == BuiltMeta(url, total, full.durationMs, 0 - age, FALSE)
      info == createSpriteImage(full.frames, full.frameWidth, full.frameHeight,
                                Min(total, 10), "ok")
  IN  [k \in Keys |->
        IF k[2] # url \/ k[3] # "serial" \/ k[1] \notin kinds THEN Null
        ELSE IF k[1] = "meta" THEN meta
        ELSE IF k[1] = "sprite" THEN BuiltSprite(meta, info, 0 - age)
        ELSE [blobs |-> Len(full.frames)]]

PriorStores ==
  {EmptyStore, PriorStore(SPRITE_CACHE_EXPIRE - 1, {"sprite", "orig"})} \cup
  {PriorStore(age, Kinds) : age \in PriorAges}

(***************************************************************************)
(* Init: the state after setup of VideoFramesViewer and its first flush.   *)
(* The videoUrl watcher is immediate (81-96): it has set isLoading, run    *)
(* cleanupResources and called initializeWithMetadata, whose nextTick and  *)
(* the code up to the first storage read (59-66, 744-747, 423-436) ran in  *)
(* the same task: microtasks run before any storage or media event.        *)
(***************************************************************************)
Init ==
  /\ videoUrl \in Urls
  /\ useConcurrent = FALSE
  /\ preloaded \in BOOLEAN
  /\ containerWidth \in ContainerWidths
  /\ fullFrameMeta = Null
  /\ poolKey = Null
  /\ frameData = <<>>
  /\ spriteData = Null
  /\ isLoading = TRUE
  /\ store \in PriorStores
  /\ now = 0
  /\ faults = 0
  /\ calls = [c \in Calls |->
               IF c = 1
               THEN [IdleCall EXCEPT !.pc = "getMeta", !.keyUrl = videoUrl,
                                     !.isConcurrent = useConcurrent]
               ELSE IdleCall]
  /\ sh = IdleHelper
  /\ rs = IdleResize
  /\ fn = IdleFn
  /\ sm = IdleSampler


\* the environment lets an operation fail (failed) only within its budget
Faulty(failed) ==
  IF failed THEN faults < MaxFaults /\ faults' = faults + 1 ELSE faults' = faults

(***************************************************************************)
(* cleanupResources (useVideoFrames.ts 754-769)                            *)
(***************************************************************************)
cleanupResources ==
  /\ frameData' = <<>>
  /\ fullFrameMeta' = Null
  /\ poolKey' = Null
  /\ spriteData' = Null
  /\ rs' = [rs EXCEPT !.throttle = "idle"]

(***************************************************************************)
(* sampleFramesFromPool, first half (637-681): up to the await of the      *)
(* sprite read.  ffm is fullFrameMeta at that moment.                      *)
(***************************************************************************)
SampleBegin(rec, ffm) ==
  IF ffm = Null THEN Finished(rec)
  ELSE [rec EXCEPT !.pc = "sampleGet", !.smeta = ffm, !.scw = containerWidth,
                   !.skey = spriteCacheKey(videoUrl, useConcurrent)]

(***************************************************************************)
(* initializeWithMetadata after nextTick (Viewer 59-66),                   *)
(* initializeVideoFrames (744-748) and initPreciseFramePool up to its      *)
(* first await (423-436), for source url, strategy conc and in-memory pool *)
(* ffm: the call record after that code.                                   *)
(***************************************************************************)
StartCall(url, conc, ffm) ==
  IF url = NoUrl
  THEN Finished([IdleCall EXCEPT !.outcome = "nourl"])
  ELSE IF ffm # Null
  THEN SampleBegin([IdleCall EXCEPT !.keyUrl = url, !.isConcurrent = conc,
                                    !.ret = ffm, !.outcome = "early"], ffm)
  ELSE [IdleCall EXCEPT !.keyUrl = url, !.isConcurrent = conc, !.pc = "getMeta"]

(***************************************************************************)
(* Host events.  A watcher callback, the nextTick it awaits and the start  *)
(* of the call run in one task.                                            *)
(***************************************************************************)
\* VideoFramesViewer.vue watch(videoUrlRef) 81-96: the parent passes another source
WatchVideoUrl(newUrl) ==
  /\ newUrl # videoUrl
  /\ newUrl # NoUrl => FreeSlots # {}
  /\ videoUrl' = newUrl
  /\ isLoading' = TRUE
  /\ cleanupResources
  /\ calls' = IF newUrl # NoUrl
              THEN [calls EXCEPT ![NextSlot] = StartCall(newUrl, useConcurrent, Null)]
              ELSE calls
  /\ UNCHANGED <<sm, sh, fn, useConcurrent, preloaded, containerWidth, store, now, faults>>

\* VideoFramesViewer.vue watch(useConcurrent) 73-79: the strategy checkbox is toggled
WatchUseConcurrent ==
  /\ FreeSlots # {}
  /\ useConcurrent' = ~useConcurrent
  /\ cleanupResources
  /\ isLoading' = IF videoUrl # NoUrl THEN TRUE ELSE isLoading
  /\ calls' = IF videoUrl # NoUrl
              THEN [calls EXCEPT ![NextSlot] = StartCall(videoUrl, ~useConcurrent, Null)]
              ELSE calls
  /\ UNCHANGED <<sm, sh, fn, videoUrl, preloaded, containerWidth, store, now, faults>>

\* VideoTimeline.vue watchEffect 73-80 (and onMounted of the first App):
\* initializeVideoFrames is called again for the unchanged source
InitializeAgain ==
  /\ FreeSlots # {}
  /\ calls' = [calls EXCEPT ![NextSlot] = StartCall(videoUrl, useConcurrent, fullFrameMeta)]
  /\ UNCHANGED <<sm, sh, fn, rs, videoUrl, useConcurrent, preloaded, containerWidth, fullFrameMeta,
                 poolKey, frameData, spriteData, isLoading, store, now, faults>>

\* the clock advances by 1 ms
Tick ==
  /\ now < MaxTicks
  /\ now' = now + 1
  /\ UNCHANGED <<sm, sh, fn, rs, videoUrl, useConcurrent, preloaded, containerWidth, fullFrameMeta,
                 poolKey, frameData, spriteData, isLoading, store, faults, calls>>

\* variant: a SpriteSheet record is still accepted at the age of its window
spriteFresh_inclusive(stored, t) ==
  stored # Null /\ t - stored.timestamp <= SPRITE_CACHE_EXPIRE

\* the expiry tests of lines 437 and 447
metaFresh(stored, t) == stored # Null /\ t - stored.timestamp < VIDEO_FRAME_CACHE_EXPIRE
spriteFresh(stored, t) == stored # Null /\ t - stored.timestamp < SPRITE_CACHE_EXPIRE

\* 436-442: getItem(videoMetaCacheKey) has resolved; a record that is not
\* fresh is removed (removeItem directly follows the read)
GetMeta(c) ==
  LET rec == calls[c]
      key == videoMetaCacheKey(rec.keyUrl, rec.isConcurrent)
      storedMeta == store[key]
  IN  /\ rec.pc = "getMeta"
      /\ calls' = [calls EXCEPT ![c] =
           [rec EXCEPT !.cachedMeta = IF metaFresh(storedMeta, now) THEN storedMeta ELSE Null,
                       !.metaAge = AgeOf(storedMeta, now),
                       !.pc = "getSprite"]]
      /\ store' = IF metaFresh(storedMeta, now) THEN store
                  ELSE [store EXCEPT ![key] = Null]
      /\ UNCHANGED <<sm, sh, fn, rs, videoUrl, useConcurrent, preloaded, containerWidth, fullFrameMeta,
                     poolKey, frameData, spriteData, isLoading, now, faults>>

\* 446-452: getItem(spriteCacheKey) has resolved; likewise
GetSprite(c) ==
  LET rec == calls[c]
      key == spriteCacheKey(rec.keyUrl, rec.isConcurrent)
      storedSprite == store[key]
  IN  /\ rec.pc = "getSprite"
      /\ calls' = [calls EXCEPT ![c] =
           [rec EXCEPT !.cachedSprite = IF spriteFresh(storedSprite, now)
                                        THEN storedSprite ELSE Null,
                       !.spriteAge = AgeOf(storedSprite, now),
                       !.pc = "getOrig"]]
      /\ store' = IF spriteFresh(storedSprite, now) THEN store
                  ELSE [store EXCEPT ![key] = Null]
      /\ UNCHANGED <<sm, sh, fn, rs, videoUrl, useConcurrent, preloaded, containerWidth, fullFrameMeta,
                     poolKey, frameData, spriteData, isLoading, now, faults>>

\* variant: the FramePool record alone makes a hit
CacheHit_metaOnly(c) ==
  LET rec == calls[c]
  IN  /\ rec.pc = "getOrig"
      /\ rec.cachedMeta # Null
      /\ fullFrameMeta' = rec.cachedMeta
      /\ poolKey' = KeyOf(rec)
      /\ isLoading' = FALSE
      /\ calls' = [calls EXCEPT ![c] =
           SampleBegin([rec EXCEPT !.ret = [meta |-> rec.cachedMeta, sprite |-> Null],
                                   !.outcome = "hit",
                                   !.metaAge = NoAge, !.spriteAge = NoAge,
                                   !.cachedMeta = Null, !.cachedSprite = Null],
                       rec.cachedMeta)]
      /\ UNCHANGED <<sm, sh, fn, rs, videoUrl, useConcurrent, preloaded, containerWidth,
                     frameData, spriteData, store, now, faults>>

\* 454-507: the read of the original-frames entry has resolved (it only
\* feeds originalFrames) and both records were accepted: adopt and return
CacheHit(c) ==
  LET rec == calls[c]
  IN  /\ rec.pc = "getOrig"
      /\ rec.cachedMeta # Null /\ rec.cachedSprite # Null
      /\ fullFrameMeta' = rec.cachedMeta
      /\ poolKey' = KeyOf(rec)
      /\ isLoading' = FALSE
      /\ calls' = [calls EXCEPT ![c] =
           SampleBegin([rec EXCEPT !.ret = [meta |-> rec.cachedMeta,
                                            sprite |-> rec.cachedSprite.spriteInfo],
                                   !.outcome = "hit",
                                   !.metaAge = NoAge, !.spriteAge = NoAge,
                                   !.cachedMeta = Null, !.cachedSprite = Null],
                       rec.cachedMeta)]
      /\ UNCHANGED <<sm, sh, fn, rs, videoUrl, useConcurrent, preloaded, containerWidth,
                     frameData, spriteData, store, now, faults>>

\* the parent's metadata is for the current source
preloadedMetadata == IF preloaded /\ videoUrl # NoUrl THEN VideoOf(videoUrl) ELSE Null

\* the kinds of record the read step of the call did not accept
NotAccepted(rec) ==
  {k \in {"meta", "sprite"} :
     (k = "meta" /\ rec.cachedMeta = Null) \/ (k = "sprite" /\ rec.cachedSprite = Null)}

\* variant: the cached pair is never used, every call extracts
CacheMiss_always(c) ==
  LET rec == calls[c]
  IN  /\ rec.pc = "getOrig"
      /\ isLoading' = TRUE
      /\ calls' = [calls EXCEPT ![c] =
           [rec EXCEPT !.argUrl = videoUrl, !.nProbe = @ + 1, !.pc = "probe",
                       !.metaAge = NoAge, !.spriteAge = NoAge,
                       !.missed = NotAccepted(rec),
                       !.cachedMeta = Null, !.cachedSprite = Null]]
      /\ UNCHANGED <<sm, sh, fn, rs, videoUrl, useConcurrent, preloaded, containerWidth, fullFrameMeta,
                     poolKey, frameData, spriteData, store, now, faults>>

\* 454-497, 509-549: no cache hit; isLoading is raised and the first
\* Sampler call is issued: the probe, or the full extraction when the
\* parent supplied the metadata
CacheMiss(c) ==
  LET rec == calls[c]
  IN  /\ rec.pc = "getOrig"
      /\ ~(rec.cachedMeta # Null /\ rec.cachedSprite # Null)
      /\ isLoading' = TRUE
      /\ calls' = [calls EXCEPT ![c] =
           IF preloadedMetadata # Null
           THEN [rec EXCEPT !.duration = preloadedMetadata.durationMs,
                            !.totalFrames = calculateTotalFrames(
                               preloadedMetadata.videoWidth, preloadedMetadata.videoHeight),
                            !.argUrl = videoUrl, !.nFull = @ + 1, !.pc = "extract",
                            !.metaAge = NoAge, !.spriteAge = NoAge,
                            !.missed = NotAccepted(rec),
                            !.cachedMeta = Null, !.cachedSprite = Null]
           ELSE [rec EXCEPT !.argUrl = videoUrl, !.nProbe = @ + 1, !.pc = "probe",
                            !.metaAge = NoAge, !.spriteAge = NoAge,
                            !.missed = NotAccepted(rec),
                            !.cachedMeta = Null, !.cachedSprite = Null]]
      /\ UNCHANGED <<sm, sh, fn, rs, videoUrl, useConcurrent, preloaded, containerWidth, fullFrameMeta,
                     poolKey, frameData, spriteData, store, now, faults>>

\* the failure patterns of an extraction of frameCount frames from url
FailuresOf(url, frameCount) ==
  FailPatterns(adjustedFrameCount(VideoOf(url).durationMs, frameCount))

\* 537-549: the probe getVideoFramesFn(url, 1) has resolved; totalFrames is
\* computed and the full extraction is issued for the url of that moment
ProbeResolve(c) ==
  LET rec == calls[c]
  IN  /\ rec.pc = "probe"
      /\ rec.argUrl # NoUrl
      /\ \E failed \in FailuresOf(rec.argUrl, 1) :
           LET basicVideoInfo == getVideoFramesFn(rec.isConcurrent, rec.argUrl, 1, failed)
           IN  /\ basicVideoInfo # Null
               /\ Faulty(failed # {})
               /\ calls' = [calls EXCEPT ![c] =
                    [rec EXCEPT !.duration = basicVideoInfo.durationMs,
                                !.totalFrames = calculateTotalFrames(
                                   basicVideoInfo.aspectW, basicVideoInfo.aspectH),
                                !.probeFrames = Len(basicVideoInfo.frames),
                                !.argUrl = videoUrl, !.nFull = @ + 1, !.pc = "extract"]]
      /\ UNCHANGED <<sm, sh, fn, rs, videoUrl, useConcurrent, preloaded, containerWidth, fullFrameMeta,
                     poolKey, frameData, spriteData, isLoading, store, now>>

\* variant: the rejection is not followed by cleanupResources
SamplerReject_noCleanup(c) ==
  LET rec == calls[c]
  IN  /\ rec.pc \in {"probe", "extract"}
      /\ Faulty(TRUE)
      /\ isLoading' = FALSE
      /\ calls' = [calls EXCEPT ![c] = Finished([rec EXCEPT !.outcome = "failed"])]
      /\ UNCHANGED <<sm, sh, fn, rs, videoUrl, useConcurrent, preloaded, containerWidth, fullFrameMeta,
                     poolKey, frameData, spriteData, store, now>>

\* a Sampler call rejects (the source fails to load, or the serial strategy
\* captured no frame): finally at 632-634, then the catch of
\* initializeVideoFrames at 749-751
SamplerReject(c) ==
  LET rec == calls[c]
  IN  /\ rec.pc \in {"probe", "extract"}
      /\ Faulty(TRUE)
      /\ isLoading' = FALSE
      /\ cleanupResources
      /\ calls' = [calls EXCEPT ![c] = Finished([rec EXCEPT !.outcome = "failed"])]
      /\ UNCHANGED <<sm, sh, fn, videoUrl, useConcurrent, preloaded, containerWidth, store, now>>

\* 549-574: the full extraction has resolved; the sprite is packed, the
\* FramePool record is built and its write is issued
ExtractResolve(c) ==
  LET rec == calls[c]
  IN  /\ rec.pc = "extract"
      /\ rec.argUrl # NoUrl
      /\ \E failed \in FailuresOf(rec.argUrl, rec.totalFrames), env \in PackEnvs :
           LET fullVideoInfo == getVideoFramesFn(rec.isConcurrent, rec.argUrl,
                                                 rec.totalFrames, failed)
               spriteCols == Min(rec.totalFrames, 10)
           IN  /\ fullVideoInfo # Null
               /\ Faulty(failed # {} \/ env # "ok")
               /\ LET fullSpriteInfo == createSpriteImage(fullVideoInfo.frames,
                         fullVideoInfo.frameWidth, fullVideoInfo.frameHeight,
                         spriteCols, env)
                      metaData ==
                        [aspectW |-> fullVideoInfo.aspectW, aspectH |-> fullVideoInfo.aspectH,
                         frameWidth |-> fullVideoInfo.frameWidth,
                         frameHeight |-> fullVideoInfo.frameHeight,
                         totalFrames |-> rec.totalFrames, durationMs |-> rec.duration,
                         timestamp |-> now,
                         hasAudio |-> IF preloadedMetadata # Null
                                      THEN preloadedMetadata.hasAudio ELSE FALSE]
                  IN  calls' = [calls EXCEPT ![c] =
                        [rec EXCEPT !.metaData = metaData, !.sprite = fullSpriteInfo,
                                    !.nframes = Len(fullVideoInfo.frames),
                                    !.fullFrames = Len(fullVideoInfo.frames),
                                    !.nPack = @ + 1, !.argUrl = NoUrl,
                                    !.pc = "writeMeta"]]
      /\ UNCHANGED <<sm, sh, fn, rs, videoUrl, useConcurrent, preloaded, containerWidth, fullFrameMeta,
                     poolKey, frameData, spriteData, isLoading, store, now>>


(***************************************************************************)
(* setItemWithQuotaHandling (storageHelper.ts 75-103) as the pool manager  *)
(* sees it: the store it leaves and the boolean it returns, given the      *)
(* outcomes o1, o2 of the first and of the second storage.setItem.         *)
(***************************************************************************)
SetOutcomes == {"ok", "quota", "error"}

setItemWithQuotaHandling(st, key, value, o1, o2) ==
  IF o1 = "ok" THEN [store |-> [st EXCEPT ![key] = value], ok |-> TRUE]
  ELSE IF o1 = "quota"
  THEN IF o2 = "ok"
       THEN [store |-> [cleanupOldestCache(st) EXCEPT ![key] = value], ok |-> TRUE]
       ELSE [store |-> cleanupOldestCache(st), ok |-> FALSE]
  ELSE [store |-> st, ok |-> FALSE]

\* variant: the SpriteSheet record is written where the FramePool record is due
WriteMeta_spriteFirst(c) ==
  LET rec == calls[c]
  IN  /\ rec.pc = "writeMeta"
      /\ \E o1 \in SetOutcomes, o2 \in SetOutcomes :
           LET r == setItemWithQuotaHandling(store,
                      spriteCacheKey(rec.keyUrl, rec.isConcurrent),
                      BuiltSprite(rec.metaData, rec.sprite, now), o1, o2)
           IN  /\ Faulty(o1 # "ok")
               /\ store' = r.store
               /\ calls' = [calls EXCEPT ![c] =
                    [rec EXCEPT !.spriteDataCache = BuiltSprite(rec.metaData, rec.sprite, now),
                                !.wok = IF r.ok THEN @ \cup {"sprite"} ELSE @,
                                !.pc = "writeSprite"]]
      /\ fullFrameMeta' = rec.metaData
      /\ poolKey' = KeyOf(rec)
      /\ UNCHANGED <<sm, sh, fn, rs, videoUrl, useConcurrent, preloaded, containerWidth,
                     frameData, spriteData, isLoading, now>>

\* 574-577, 585: setItemWithQuotaHandling(videoMetaCacheKey, metaData) has
\* returned; fullFrameMeta is set, the SpriteSheet record is built and its
\* write is issued
WriteMeta(c) ==
  LET rec == calls[c]
  IN  /\ rec.pc = "writeMeta"
      /\ \E o1 \in SetOutcomes, o2 \in SetOutcomes :
           LET r == setItemWithQuotaHandling(store,
                      videoMetaCacheKey(rec.keyUrl, rec.isConcurrent), rec.metaData, o1, o2)
           IN  /\ Faulty(o1 # "ok")
               /\ store' = r.store
               /\ calls' = [calls EXCEPT ![c] =
                    [rec EXCEPT !.spriteDataCache = BuiltSprite(rec.metaData, rec.sprite, now),
                                !.wok = IF r.ok THEN @ \cup {"meta"} ELSE @,
                                !.pc = "writeSprite"]]
      /\ fullFrameMeta' = rec.metaData
      /\ poolKey' = KeyOf(rec)
      /\ UNCHANGED <<sm, sh, fn, rs, videoUrl, useConcurrent, preloaded, containerWidth,
                     frameData, spriteData, isLoading, now>>

\* 585-613: setItemWithQuotaHandling(spriteCacheKey, spriteDataCache) has
\* returned; the frames are turned into blobs and their write is issued
WriteSprite(c) ==
  LET rec == calls[c]
  IN  /\ rec.pc = "writeSprite"
      /\ \E o1 \in SetOutcomes, o2 \in SetOutcomes :
           LET r == setItemWithQuotaHandling(store,
                      spriteCacheKey(rec.keyUrl, rec.isConcurrent), rec.spriteDataCache, o1, o2)
           IN  /\ Faulty(o1 # "ok")
               /\ store' = r.store
               /\ calls' = [calls EXCEPT ![c] =
                    [rec EXCEPT !.spriteDataCache = Null,
                                !.wok = IF r.ok THEN @ \cup {"sprite"} ELSE @,
                                !.pc = "writeOrig"]]
      /\ UNCHANGED <<sm, sh, fn, rs, videoUrl, useConcurrent, preloaded, containerWidth, fullFrameMeta,
                     poolKey, frameData, spriteData, isLoading, now>>

\* 613-634 and 748: setItemWithQuotaHandling(originalFramesCacheKey, blobs)
\* has returned; return {meta, sprite}, finally, and sampleFramesFromPool
\* runs up to its sprite read
WriteOrig(c) ==
  LET rec == calls[c]
  IN  /\ rec.pc = "writeOrig"
      /\ \E o1 \in SetOutcomes, o2 \in SetOutcomes :
           LET r == setItemWithQuotaHandling(store,
                      originalFramesCacheKey(rec.keyUrl, rec.isConcurrent),
                      [blobs |-> rec.nframes], o1, o2)
           IN  /\ Faulty(o1 # "ok")
               /\ store' = r.store
      /\ isLoading' = FALSE
      /\ calls' = [calls EXCEPT ![c] =
           SampleBegin([rec EXCEPT !.ret = [meta |-> rec.metaData, sprite |-> rec.sprite],
                                   !.outcome = "built",
                                   !.metaData = Null, !.sprite = Null, !.nframes = 0,
                                   !.duration = 0, !.totalFrames = 0],
                       fullFrameMeta)]
      /\ UNCHANGED <<sm, sh, fn, rs, videoUrl, useConcurrent, preloaded, containerWidth, fullFrameMeta,
                     poolKey, frameData, spriteData, now>>

(***************************************************************************)
(* sampleFramesFromPool, second half (683-720): the sprite read resolved   *)
(***************************************************************************)
SampleGet(c) ==
  LET rec == calls[c]
      storedSprite == StoreGet(store, rec.skey)
  IN  /\ rec.pc = "sampleGet"
      /\ IF storedSprite = Null
         THEN UNCHANGED <<frameData, spriteData>>
         ELSE /\ frameData' = framesDataOf(rec.smeta, rec.scw, storedSprite.spriteInfo)
              /\ spriteData' = spriteRenderOf(rec.smeta, storedSprite.spriteInfo)
      /\ calls' = [calls EXCEPT ![c] = Finished(rec)]
      /\ UNCHANGED <<sm, sh, fn, rs, videoUrl, useConcurrent, preloaded, containerWidth, fullFrameMeta,
                     poolKey, isLoading, store, now, faults>>

Next ==
  \/ \E u \in Urls : WatchVideoUrl(u)
  \/ WatchUseConcurrent
  \/ InitializeAgain
  \/ Tick
  \/ \E c \in Calls : GetMeta(c)
  \/ \E c \in Calls : GetSprite(c)
  \/ \E c \in Calls : CacheHit(c)
  \/ \E c \in Calls : CacheMiss(c)
  \/ \E c \in Calls : ProbeResolve(c)
  \/ \E c \in Calls : SamplerReject(c)
  \/ \E c \in Calls : ExtractResolve(c)
  \/ \E c \in Calls : WriteMeta(c)
  \/ \E c \in Calls : WriteSprite(c)
  \/ \E c \in Calls : WriteOrig(c)
  \/ \E c \in Calls : SampleGet(c)

Spec == Init /\ [][Next]_vars

(***************************************************************************)
(* The same component when the parent may also clear the source: the       *)
(* videoUrl watcher (Viewer 81-96) then sets isLoading and runs            *)
(* cleanupResources, and "if (newUrl)" skips initializeWithMetadata.       *)
(***************************************************************************)
Sources == Urls \cup {NoUrl}

InitSource ==
  /\ Init
  /\ videoUrl = "a"
  /\ store \in {EmptyStore, PriorStore(SPRITE_CACHE_EXPIRE - 1, Kinds)}

NextSource ==
  \/ \E u \in Sources : WatchVideoUrl(u)
  \/ WatchUseConcurrent
  \/ InitializeAgain
  \/ Tick
  \/ \E c \in Calls : GetMeta(c)
  \/ \E c \in Calls : GetSprite(c)
  \/ \E c \in Calls : CacheHit(c)
  \/ \E c \in Calls : CacheMiss(c)
  \/ \E c \in Calls : ProbeResolve(c)
  \/ \E c \in Calls : SamplerReject(c)
  \/ \E c \in Calls : ExtractResolve(c)
  \/ \E c \in Calls : WriteMeta(c)
  \/ \E c \in Calls : WriteSprite(c)
  \/ \E c \in Calls : WriteOrig(c)
  \/ \E c \in Calls : SampleGet(c)

SpecSource == InitSource /\ [][NextSource]_vars


(***************************************************************************)
(* Viewport resize (useVideoFrames.ts 733-742, 777): the window's resize   *)
(* listener handleResize calls throttledSample, a lodash throttle of 16 ms *)
(* around "if (isLoading) return; await sampleFramesFromPool()".           *)
(***************************************************************************)
\* container widths a resize may leave: collapsed, or wider than at the start
ResizeWidths == {0, 700}

\* 733-736 and 637-681: the throttled function is invoked for container width
\* w; r is rs with the event already counted
InvokeSample(r, w) ==
  IF isLoading \/ fullFrameMeta = Null
  THEN [r EXCEPT !.invoked = @ + 1]
  ELSE [r EXCEPT !.invoked = @ + 1,
                 !.runs[r.invoked + 1] =
                    [pc |-> "sampleGet", smeta |-> fullFrameMeta, scw |-> w,
                     skey |-> spriteCacheKey(videoUrl, useConcurrent)]]

\* variant: a resize re-initializes the frames instead of resampling
Resize_reinitialize(w) ==
  /\ rs.events < MaxResizes
  /\ FreeSlots # {}
  /\ containerWidth' = w
  /\ rs' = [rs EXCEPT !.events = @ + 1]
  /\ calls' = [calls EXCEPT ![NextSlot] = StartCall(videoUrl, useConcurrent, Null)]
  /\ UNCHANGED <<sm, sh, fn, videoUrl, useConcurrent, preloaded, fullFrameMeta, poolKey,
                 frameData, spriteData, isLoading, store, now, faults>>

\* 738-742: the viewport is resized and the container becomes w wide; the
\* throttle runs the function at once when idle and defers it otherwise
Resize(w) ==
  /\ rs.events < MaxResizes
  /\ containerWidth' = w
  /\ rs' = IF rs.throttle = "idle"
           THEN InvokeSample([rs EXCEPT !.events = @ + 1, !.throttle = "wait"], w)
           ELSE [rs EXCEPT !.events = @ + 1, !.throttle = "pending"]
  /\ UNCHANGED <<sm, sh, fn, videoUrl, useConcurrent, preloaded, fullFrameMeta, poolKey,
                 frameData, spriteData, isLoading, store, now, faults, calls>>

\* 733: the 16 ms of the throttle are over; a deferred call runs now
ThrottleTimer ==
  /\ rs.throttle \in {"wait", "pending"}
  /\ rs' = IF rs.throttle = "pending"
           THEN InvokeSample([rs EXCEPT !.throttle = "wait"], containerWidth)
           ELSE [rs EXCEPT !.throttle = "idle"]
  /\ UNCHANGED <<sm, sh, fn, videoUrl, useConcurrent, preloaded, containerWidth, fullFrameMeta,
                 poolKey, frameData, spriteData, isLoading, store, now, faults, calls>>

\* 683-720: the sprite read of a resize-triggered sampleFramesFromPool resolved
ResizeSampleGet(r) ==
  LET run == rs.runs[r]
      storedSprite == StoreGet(store, run.skey)
  IN  /\ run.pc = "sampleGet"
      /\ IF storedSprite = Null
         THEN UNCHANGED <<frameData, spriteData>>
         ELSE /\ frameData' = framesDataOf(run.smeta, run.scw, storedSprite.spriteInfo)
              /\ spriteData' = spriteRenderOf(run.smeta, storedSprite.spriteInfo)
      /\ rs' = [rs EXCEPT !.runs[r] = [IdleRun EXCEPT !.pc = "done"]]
      /\ UNCHANGED <<sm, sh, fn, videoUrl, useConcurrent, preloaded, containerWidth, fullFrameMeta,
                     poolKey, isLoading, store, now, faults, calls>>

\* the sessions in which the resize events are followed: one source, the
\* store empty or holding a valid pair of records for it
InitResize ==
  /\ Init
  /\ videoUrl = "a"
  /\ store \in {EmptyStore, PriorStore(SPRITE_CACHE_EXPIRE - 1, Kinds)}

NextResize ==
  \/ InitializeAgain
  \/ \E c \in Calls : GetMeta(c)
  \/ \E c \in Calls : GetSprite(c)
  \/ \E c \in Calls : CacheHit(c)
  \/ \E c \in Calls : CacheMiss(c)
  \/ \E c \in Calls : ProbeResolve(c)
  \/ \E c \in Calls : SamplerReject(c)
  \/ \E c \in Calls : ExtractResolve(c)
  \/ \E c \in Calls : WriteMeta(c)
  \/ \E c \in Calls : WriteSprite(c)
  \/ \E c \in Calls : WriteOrig(c)
  \/ \E c \in Calls : SampleGet(c)
  \/ \E w \in ResizeWidths : Resize(w)
  \/ ThrottleTimer
  \/ \E r \in Resamples : ResizeSampleGet(r)

SpecResize == InitResize /\ [][NextResize]_vars


(***************************************************************************)
(* setItemWithQuotaHandling and cleanupOldestCache step by step            *)
(* (storageHelper.ts 25-103): one action per await.  A storage call of the *)
(* eviction pass may reject as well; the pass catches it (63-65).          *)
(***************************************************************************)
TimedKeys == {k \in Keys : k[1] # "orig"}
OrigKeys == {k \in Keys : k[1] = "orig"}

\* the keys of K below rank m in keys() order
KeysBelow(K, m) == {k \in K : Cardinality({j \in K : KeyRank(j) < KeyRank(k)}) < m}

\* the record the pool manager stores under key k with timestamp t
RecordFor(k, t) ==
  LET v == VideoOf(k[2])
      meta == BuiltMeta(k[2], calculateTotalFrames(v.videoWidth, v.videoHeight),
                        v.durationMs, t, FALSE)
  IN  IF k[1] = "meta" THEN meta
      ELSE IF k[1] = "sprite" THEN BuiltSprite(meta, EmptySheet, t)
      ELSE [blobs |-> meta.totalFrames]

\* the ways the timestamps of the stored records relate to the key order
StampPatterns == {"keyOrder", "reverse", "equal"}
StampOf(k, pattern) ==
  CASE pattern = "keyOrder" -> KeyRank(k) - Cardinality(Keys)
    [] pattern = "reverse" -> 0 - 1 - KeyRank(k)
    [] OTHER -> 0 - 1

\* the stores the helper is called on: some FramePool and SpriteSheet
\* records and some original-frames entries of earlier builds
HelperStores ==
  {[k \in Keys |-> IF k \in KeysBelow(TimedKeys, m) \cup KeysBelow(OrigKeys, u)
                   THEN RecordFor(k, StampOf(k, pattern)) ELSE Null] :
     m \in 0..Cardinality(TimedKeys), u \in 0..Cardinality(OrigKeys),
     pattern \in StampPatterns}

InitStore ==
  /\ videoUrl = "a"
  /\ useConcurrent = FALSE
  /\ preloaded = FALSE
  /\ containerWidth \in ContainerWidths
  /\ fullFrameMeta = Null
  /\ poolKey = Null
  /\ frameData = <<>>
  /\ spriteData = Null
  /\ isLoading = TRUE
  /\ store \in HelperStores
  /\ now = 0
  /\ faults = 0
  /\ calls = [c \in Calls |-> IdleCall]
  /\ sh = IdleHelper
  /\ rs = IdleResize
  /\ fn = IdleFn
  /\ sm = IdleSampler

poolVars == <<videoUrl, useConcurrent, preloaded, containerWidth, fullFrameMeta,
              poolKey, frameData, spriteData, isLoading, now, faults, calls, rs, fn, sm>>

\* storage.keys(): the keys present, in key order
keysOf(st) ==
  LET present == {k \in Keys : st[k] # Null}
  IN  [r \in 1..Cardinality(present) |->
        CHOOSE k \in present : Cardinality({j \in present : KeyRank(j) < KeyRank(k)}) = r - 1]

\* cacheItems.sort((a, b) => a.timestamp - b.timestamp), a stable sort
sortByTimestamp(items) ==
  LET before(p, q) == \/ items[p].timestamp < items[q].timestamp
                      \/ items[p].timestamp = items[q].timestamp /\ p < q
  IN  [r \in 1..Len(items) |->
        items[CHOOSE q \in 1..Len(items) :
                Cardinality({p \in 1..Len(items) : before(p, q)}) = r - 1]]

\* 75-81: the pool manager calls setItemWithQuotaHandling(store, key, value)
SetItemCall(key) ==
  /\ sh.pc = "idle"
  /\ sh' = [sh EXCEPT !.pc = "set1", !.key = key, !.value = RecordFor(key, now),
                      !.attempts = 1, !.before = store]
  /\ UNCHANGED <<store, poolVars>>

\* 81-86, 100-101: the first storage.setItem settles with outcome o
SetItemFirst(o) ==
  /\ sh.pc = "set1"
  /\ store' = IF o = "ok" THEN [store EXCEPT ![sh.key] = sh.value] ELSE store
  /\ sh' = IF o = "ok" THEN [sh EXCEPT !.pc = "done", !.first = o, !.result = "true"]
           ELSE IF o = "quota" THEN [sh EXCEPT !.pc = "keys", !.first = o, !.passes = @ + 1]
           ELSE [sh EXCEPT !.pc = "done", !.first = o, !.result = "false"]
  /\ UNCHANGED poolVars

\* the second setItem is issued: cleanupOldestCache has returned (90-92)
RetryIssued(h, complete) ==
  [h EXCEPT !.pc = "set2", !.attempts = @ + 1, !.passDone = complete,
            !.keys = <<>>, !.cacheItems = <<>>, !.i = 0]

\* 32-33: storage.keys() resolves
KeysResolve ==
  /\ sh.pc = "keys"
  /\ sh' = IF Len(keysOf(store)) = 0 THEN RetryIssued(sh, TRUE)
           ELSE [sh EXCEPT !.pc = "scan", !.keys = keysOf(store)]
  /\ UNCHANGED <<store, poolVars>>

\* 37-56: storage.getItem of the next key resolves; after the last key the
\* items are sorted and the first removeItem is issued
GetItemResolve ==
  /\ sh.pc = "scan"
  /\ LET key == Head(sh.keys)
         item == store[key]
         items == IF HasTimestamp(item)
                  THEN Append(sh.cacheItems, [key |-> key, timestamp |-> item.timestamp])
                  ELSE sh.cacheItems
     IN  sh' = IF Len(sh.keys) > 1
               THEN [sh EXCEPT !.keys = Tail(@), !.cacheItems = items]
               ELSE IF Len(items) = 0 THEN RetryIssued(sh, TRUE)
               ELSE [sh EXCEPT !.pc = "remove", !.keys = <<>>,
                               !.cacheItems = sortByTimestamp(items), !.i = 0]
  /\ UNCHANGED <<store, poolVars>>

\* 56-62: storage.removeItem(cacheItems[i].key) resolves
RemoveResolve ==
  /\ sh.pc = "remove"
  /\ store' = [store EXCEPT ![sh.cacheItems[sh.i + 1].key] = Null]
  /\ sh' = IF sh.i + 1 < itemsToDelete(Len(sh.cacheItems)) /\ sh.i + 1 < Len(sh.cacheItems)
           THEN [sh EXCEPT !.i = @ + 1]
           ELSE RetryIssued(sh, TRUE)
  /\ UNCHANGED poolVars

\* 63-65: a storage call of the pass rejects; the pass logs it and returns
CleanupFails ==
  /\ sh.pc \in {"keys", "scan", "remove"}
  /\ sh' = RetryIssued(sh, FALSE)
  /\ UNCHANGED <<store, poolVars>>

\* variant: the retry is not guarded, its failure leaves the function
SetItemRetry_uncaught(o) ==
  /\ sh.pc = "set2"
  /\ store' = IF o = "ok" THEN [store EXCEPT ![sh.key] = sh.value] ELSE store
  /\ sh' = [sh EXCEPT !.pc = "done", !.second = o,
                      !.result = IF o = "ok" THEN "true" ELSE "none",
                      !.threw = (o # "ok")]
  /\ UNCHANGED poolVars

\* 92-98: the second storage.setItem settles with outcome o
SetItemRetry(o) ==
  /\ sh.pc = "set2"
  /\ store' = IF o = "ok" THEN [store EXCEPT ![sh.key] = sh.value] ELSE store
  /\ sh' = [sh EXCEPT !.pc = "done", !.second = o,
                      !.result = IF o = "ok" THEN "true" ELSE "false"]
  /\ UNCHANGED poolVars

NextStore ==
  \/ \E key \in Keys : SetItemCall(key)
  \/ \E o \in SetOutcomes : SetItemFirst(o)
  \/ KeysResolve
  \/ GetItemResolve
  \/ RemoveResolve
  \/ CleanupFails
  \/ \E o \in SetOutcomes : SetItemRetry(o)

SpecStore == InitStore /\ [][NextStore]_vars

\* the pass as a whole agrees with the steps
PassAgrees ==
  (sh.pc = "set2" /\ sh.passDone) => store = cleanupOldestCache(sh.before)


(***************************************************************************)
(* The pure functions on their own: one application of the resampler's     *)
(* index selection (useVideoFrames.ts 647-710), of createSpriteImage       *)
(* (videoFrame.ts 338-443) or of calculateFramePosition (454-488) to       *)
(* inputs drawn from bounded sets; fn holds the inputs and the value.      *)
(***************************************************************************)
\* largest pool size and frames-array length tried
MaxFrames == 24

\* container widths: multiples of a 16:9 frame's display width, rounded down,
\* so that every needFrameCount in 1..MaxFrames + 1 occurs; on these widths the
\* double quotient containerWidth / displayFrameWidth and the exact one have
\* the same ceiling for both videos
FnWidths == {k * ((frameHeight * 16) \div 9) : k \in 0..(MaxFrames + 1)}

FnMeta(url, total) == BuiltMeta(url, total, VideoOf(url).durationMs, 0, FALSE)

\* frames arrays handed to the packer
FramePatterns == {"all", "missing", "zeroSized", "broken", "lastOnly", "mixed"}
FramesOf(url, len, pat) ==
  [k \in 1..len |->
     IF pat = "all" THEN Frame(url, k - 1, len)
     ELSE IF pat = "missing" THEN Hole
     ELSE IF pat = "zeroSized" THEN ZeroSized
     ELSE IF pat = "broken" THEN Broken
     ELSE IF pat = "lastOnly" THEN (IF k = len THEN Frame(url, k - 1, len) ELSE Hole)
     ELSE IF k % 4 = 0 THEN Hole
     ELSE IF k % 4 = 2 THEN ZeroSized
     ELSE IF k % 4 = 3 THEN Broken
     ELSE Frame(url, k - 1, len)]

FnVideo == "a"

\* cols arguments tried for a frames array of length len: none, one column,
\* a few columns, the pool manager's 10, and the array length and beyond
PackCols(len) == {0, 1, 3, 10, len, len + 1}

\* sampleFramesFromPool's computation for a pool of total frames whose sprite
\* was packed as initPreciseFramePool packs it (553-563)
ApplyResample(url, total, w) ==
  LET meta == FnMeta(url, total)
      info == createSpriteImage(FramesOf(url, total, "all"), meta.frameWidth,
                                meta.frameHeight, Min(total, 10), "ok")
  IN  /\ fn.op = "none"
      /\ fn' = [op |-> "resample", meta |-> meta, containerWidth |-> w,
                spriteInfo |-> info,
                selectedIndexes |-> selectedIndexes(meta, w),
                framesData |-> framesDataOf(meta, w, info)]
      /\ UNCHANGED <<sm, sh, rs, videoUrl, useConcurrent, preloaded, containerWidth,
                     fullFrameMeta, poolKey, frameData, spriteData, isLoading,
                     store, now, faults, calls>>

ApplyPack(len, pat, cols0, env) ==
  LET frames == FramesOf(FnVideo, len, pat)
  IN  /\ fn.op = "none"
      /\ fn' = [op |-> "pack", frames |-> frames, cols |-> cols0, env |-> env,
                settled |-> "resolved",
                sheet |-> createSpriteImage(frames, VideoOf(FnVideo).videoWidth,
                                            VideoOf(FnVideo).videoHeight, cols0, env)]
      /\ UNCHANGED <<sm, sh, rs, videoUrl, useConcurrent, preloaded, containerWidth,
                     fullFrameMeta, poolKey, frameData, spriteData, isLoading,
                     store, now, faults, calls>>

ApplyPosition(index0, cols0, total) ==
  /\ fn.op = "none"
  /\ fn' = [op |-> "position", index |-> index0, cols |-> cols0, totalFrames |-> total,
            position |-> calculateFramePosition(index0, cols0,
                           VideoOf(FnVideo).videoWidth, VideoOf(FnVideo).videoHeight, total)]
  /\ UNCHANGED <<sm, sh, rs, videoUrl, useConcurrent, preloaded, containerWidth,
                 fullFrameMeta, poolKey, frameData, spriteData, isLoading,
                 store, now, faults, calls>>

\* screen widths and video sizes tried for calculateTotalFrames: aspect
\* ratios inside [0.1, 10], on its ends, outside it, 0 and infinite
ScreenWidths == {0, 10, 375, ScreenWidth, 1920, 4000}
VideoSizes == {<<1920, 1080>>, <<640, 480>>, <<1080, 1920>>, <<1, 10>>, <<10, 1>>,
               <<1, 100>>, <<100, 1>>, <<0, 480>>, <<640, 0>>}

\* lines 546 and 564-572: the totalFrames of the build and of its record
ApplyTotalFrames(screenWidth, size) ==
  /\ fn.op = "none"
  /\ fn' = [op |-> "totalFrames", screenWidth |-> screenWidth, w |-> size[1], h |-> size[2],
            totalFrames |-> calculateTotalFramesOn(screenWidth, size[1], size[2])]
  /\ UNCHANGED <<sm, sh, rs, videoUrl, useConcurrent, preloaded, containerWidth,
                 fullFrameMeta, poolKey, frameData, spriteData, isLoading,
                 store, now, faults, calls>>

InitFn ==
  /\ Init
  /\ videoUrl = FnVideo
  /\ preloaded = FALSE
  /\ store = EmptyStore

NextFn ==
  \/ \E url \in Urls, total \in 1..MaxFrames, w \in FnWidths : ApplyResample(url, total, w)
  \/ \E len \in 0..MaxFrames, pat \in FramePatterns, env \in PackEnvs :
        \E cols0 \in PackCols(len) : ApplyPack(len, pat, cols0, env)
  \/ \E index0 \in (0 - 1)..MaxFrames, cols0 \in 0..(MaxFrames \div 2),
        total \in 0..MaxFrames : ApplyPosition(index0, cols0, total)
  \/ \E screenWidth \in ScreenWidths, size \in VideoSizes :
        ApplyTotalFrames(screenWidth, size)

SpecFn == InitFn /\ [][NextFn]_vars

(***************************************************************************)
(* The frame samplers seek by seek (videoFrame.ts 18-168 and 177-324).     *)
(* A sample time is the rational num / den milliseconds, kept as the pair  *)
(* <<num, den>>; durations are whole milliseconds.  sm holds the run:      *)
(*   n            adjustedFrameCount                                       *)
(*   poolSize     the number of video elements of the run                  *)
(*   warming      the pool videos whose ready wait is pending              *)
(*   next         serial: the loop index i; concurrent: taskIndex          *)
(*   seeking      the sample indices whose seek is outstanding             *)
(*   delaying     serial: the sample outcome held during the 100 ms delay  *)
(*   frames       the frames array                                         *)
(*   sought       the times assigned to currentTime, in sample order       *)
(*   claims       history: how often each sample index has been taken      *)
(*   failed       history: the samples that produced no frame              *)
(*   irregular    history: the number of samples that did not go well      *)
(*   settled      "pending", "resolved" or "rejected"                      *)
(***************************************************************************)
\* number of samples of one run whose seek or draw the environment lets fail
MaxSeekFaults == 2

SamplerDurations == {1000, 3000, 10000, 60000}
SerialCounts == {1, 3, 10, 45}
ConcurrentCounts == {1, 3, 10}
\* the default of the concurrency parameter, the only value the callers use
DefaultConcurrency == 6

\* a canvas drawn after a seek that timed out: whatever the video showed
StaleFrame(url) == [v |-> url, stale |-> TRUE]

\* what can happen to one sample: the seek ends and the frame is drawn, the
\* seek times out (the promise resolves and the frame is drawn all the same),
\* the video raises error during the seek, the canvas has no 2d context, or
\* drawImage throws
SeekOutcomes == {"ok", "timeout", "seekError", "noContext", "drawThrows"}
Captured(outcome) == outcome \in {"ok", "timeout"}
CanvasOf(url, i, n, outcome) ==
  IF outcome = "ok" THEN Frame(url, i, n) ELSE StaleFrame(url)

\* the environment lets a sample go wrong only within its budget
SeekBudget(outcome) ==
  outcome # "ok" => (sm.mode # "none" /\ sm.irregular < MaxSeekFaults)

\* mutant of serialTime: the positions are 1/n .. n/n
serialTime_fromOne(i, n, durationMs) == <<(i + 1) * durationMs, n>>

\* (i / adjustedFrameCount) * duration, line 56 and line 243
serialTime(i, n, durationMs) == <<i * durationMs, n>>
concurrentTime(i, n, durationMs) == <<i * durationMs, n>>

\* 31-57: the metadata of the one video element has arrived; the loop starts
\* and assigns the first time to currentTime
SerialStart(durationMs, frameCount) ==
  LET n == adjustedFrameCount(durationMs, frameCount)
  IN  /\ sm.mode = "none"
      /\ sm' = [mode |-> "serial", durationMs |-> durationMs, frameCount |-> frameCount,
                n |-> n, poolSize |-> 1, warming |-> {}, next |-> 0, seeking |-> {0},
                delaying |-> "none", frames |-> <<>>,
                sought |-> <<serialTime(0, n, durationMs)>>,
                claims |-> [k \in 1..n |-> IF k = 1 THEN 1 ELSE 0],
                failed |-> {}, irregular |-> 0, settled |-> "pending"]
      /\ UNCHANGED <<sh, rs, fn, videoUrl, useConcurrent, preloaded, containerWidth,
                     fullFrameMeta, poolKey, frameData, spriteData, isLoading,
                     store, now, faults, calls>>

\* video.onerror before the metadata arrived (148-150, 183)
LoadError(mode) ==
  /\ sm.mode = "none"
  /\ sm' = [mode |-> mode, durationMs |-> 0, frameCount |-> 0, n |-> 0,
            poolSize |-> 0, warming |-> {}, next |-> 0,
            seeking |-> {}, delaying |-> "none", frames |-> <<>>, sought |-> <<>>,
            claims |-> <<>>, failed |-> {}, irregular |-> 0,
            settled |-> "rejected"]
  /\ UNCHANGED <<sh, rs, fn, videoUrl, useConcurrent, preloaded, containerWidth,
                 fullFrameMeta, poolKey, frameData, spriteData, isLoading,
                 store, now, faults, calls>>

\* mutant of SerialRest: the next seek is issued without the last being over
SerialRest_overlap(outcome) ==
  LET i == sm.next
  IN  IF i + 1 < sm.n
      THEN [sm EXCEPT !.next = i + 1, !.seeking = {i, i + 1}, !.delaying = "none",
                      !.claims = [@ EXCEPT ![i + 2] = @ + 1],
                      !.sought = Append(@, serialTime(i + 1, sm.n, sm.durationMs))]
      ELSE [sm EXCEPT !.next = i + 1, !.seeking = {}, !.delaying = "none",
                      !.settled = IF @ # "pending" THEN @ ELSE "rejected"]

\* 107-146: the rest of turn i for a sample that went as outcome says: the
\* canvas and the draw, then the next turn up to its seek, or the code after
\* the loop.  A promise settles once: resolve or reject after the first is
\* without effect.
SerialRest(outcome) ==
  LET i == sm.next
      frames == IF Captured(outcome)
                THEN Append(sm.frames, CanvasOf(FnVideo, i, sm.n, outcome))
                ELSE sm.frames
      failed == IF Captured(outcome) THEN sm.failed ELSE sm.failed \cup {i}
  IN  IF i + 1 < sm.n
      THEN [sm EXCEPT !.next = i + 1, !.seeking = {i + 1}, !.delaying = "none",
                      !.frames = frames, !.failed = failed,
                      !.claims = [@ EXCEPT ![i + 2] = @ + 1],
                      !.sought = Append(@, serialTime(i + 1, sm.n, sm.durationMs))]
      ELSE [sm EXCEPT !.next = i + 1, !.seeking = {}, !.delaying = "none",
                      !.frames = frames, !.failed = failed,
                      !.settled = IF @ # "pending" THEN @
                                  ELSE IF Len(frames) = 0 THEN "rejected"
                                  ELSE "resolved"]

\* 59-105: the wait of turn i ends.  seeked and the timer resolve it, and a
\* source shorter than 10 s then waits another 100 ms (98-100); the error
\* event rejects it (continue at 104) and, being dispatched on the same
\* element, also runs video.onerror (148-150), which rejects the call.
SerialSeekEnd(outcome) ==
  /\ sm.mode = "serial"
  /\ sm.seeking = {sm.next}
  /\ IF outcome = "seekError"
     THEN sm' = [SerialRest(outcome) EXCEPT
                   !.irregular = @ + 1,
                   !.settled = IF sm.settled = "pending" THEN "rejected" ELSE sm.settled]
     ELSE IF sm.durationMs < 10000
     THEN sm' = [sm EXCEPT !.seeking = {}, !.delaying = outcome,
                           !.irregular = IF outcome = "ok" THEN @ ELSE @ + 1]
     ELSE sm' = [SerialRest(outcome) EXCEPT
                   !.irregular = IF outcome = "ok" THEN @ ELSE @ + 1]
  /\ UNCHANGED <<sh, rs, fn, videoUrl, useConcurrent, preloaded, containerWidth,
                 fullFrameMeta, poolKey, frameData, spriteData, isLoading,
                 store, now, faults, calls>>

SerialSeekSettle(outcome) == SeekBudget(outcome) /\ SerialSeekEnd(outcome)

\* 98-100: the 100 ms timer of a short source fires
SerialDelayTimer ==
  /\ sm.mode = "serial"
  /\ sm.delaying # "none"
  /\ sm' = SerialRest(sm.delaying)
  /\ UNCHANGED <<sh, rs, fn, videoUrl, useConcurrent, preloaded, containerWidth,
                 fullFrameMeta, poolKey, frameData, spriteData, isLoading,
                 store, now, faults, calls>>

\* 241-260, 305: the task list and the frames array are made and every
\* worker runs up to its first await: each takes a task (taskIndex++) and
\* assigns its time to currentTime
StartWorkers(run) ==
  [run EXCEPT !.warming = {}, !.next = run.poolSize,
              !.seeking = 0..(run.poolSize - 1),
              !.claims = [k \in 1..run.n |-> IF k <= run.poolSize THEN 1 ELSE 0],
              !.sought = [k \in 1..run.poolSize |->
                            concurrentTime(k - 1, run.n, run.durationMs)]]

\* mutant of ConcurrentStart: the pool of a short source is not capped at 3
ConcurrentStart_uncapped(durationMs, frameCount, notReady) ==
  LET n == adjustedFrameCount(durationMs, frameCount)
      poolSize == Min(DefaultConcurrency, n)
      run == [mode |-> "concurrent", durationMs |-> durationMs,
              frameCount |-> frameCount, n |-> n, poolSize |-> poolSize,
              warming |-> notReady, next |-> 0, seeking |-> {},
              delaying |-> "none", frames |-> [k \in 1..n |-> Hole],
              sought |-> <<>>, claims |-> [k \in 1..n |-> 0],
              failed |-> {}, irregular |-> 0, settled |-> "pending"]
  IN  /\ sm.mode = "none"
      /\ notReady \subseteq 0..(poolSize - 1)
      /\ sm' = IF notReady = {} THEN StartWorkers(run) ELSE run
      /\ UNCHANGED <<sh, rs, fn, videoUrl, useConcurrent, preloaded, containerWidth,
                     fullFrameMeta, poolKey, frameData, spriteData, isLoading,
                     store, now, faults, calls>>

\* 185-239: the metadata has arrived, the pool is created and the wait for
\* its videos begins; notReady are the videos whose readyState is still 0
ConcurrentStart(durationMs, frameCount, notReady) ==
  LET n == adjustedFrameCount(durationMs, frameCount)
      shortVideoConcurrency == Min(DefaultConcurrency, 3)
      poolSize == Min(IF durationMs < 10000 THEN shortVideoConcurrency
                      ELSE DefaultConcurrency, n)
      run == [mode |-> "concurrent", durationMs |-> durationMs,
              frameCount |-> frameCount, n |-> n, poolSize |-> poolSize,
              warming |-> notReady, next |-> 0, seeking |-> {},
              delaying |-> "none", frames |-> [k \in 1..n |-> Hole],
              sought |-> <<>>, claims |-> [k \in 1..n |-> 0],
              failed |-> {}, irregular |-> 0, settled |-> "pending"]
  IN  /\ sm.mode = "none"
      /\ notReady \subseteq 0..(poolSize - 1)
      /\ sm' = IF notReady = {} THEN StartWorkers(run) ELSE run
      /\ UNCHANGED <<sh, rs, fn, videoUrl, useConcurrent, preloaded, containerWidth,
                     fullFrameMeta, poolKey, frameData, spriteData, isLoading,
                     store, now, faults, calls>>

\* 224-238: the wait for pool video v resolves, by its loadedmetadata event
\* or by its 2000 ms timer; the last one lets the workers start
PoolWaitEnd(v) ==
  /\ sm.mode = "concurrent"
  /\ v \in sm.warming
  /\ sm' = IF sm.warming = {v} THEN StartWorkers(sm)
           ELSE [sm EXCEPT !.warming = @ \ {v}]
  /\ UNCHANGED <<sh, rs, fn, videoUrl, useConcurrent, preloaded, containerWidth,
                 fullFrameMeta, poolKey, frameData, spriteData, isLoading,
                 store, now, faults, calls>>

\* v.onloadedmetadata (233)
PoolLoadedMetadata(v) ==
  /\ sm.mode = "concurrent"
  /\ PoolWaitEnd(v)

\* setTimeout(() => resolve(null), 2000) (235)
PoolTimer(v) ==
  /\ sm.mode = "concurrent"
  /\ PoolWaitEnd(v)

\* mutant of ConcurrentSeekEnd: a failed seek rejects the whole call
ConcurrentSeekEnd_aborts(task, outcome) ==
  LET frames == IF Captured(outcome)
                THEN [sm.frames EXCEPT ![task + 1] = CanvasOf(FnVideo, task, sm.n, outcome)]
                ELSE sm.frames
      failed == IF Captured(outcome) THEN sm.failed ELSE sm.failed \cup {task}
      more == sm.next < sm.n /\ outcome # "seekError"
      seeking == IF outcome = "seekError" THEN {}
                 ELSE (sm.seeking \ {task}) \cup (IF more THEN {sm.next} ELSE {})
  IN  /\ sm.mode = "concurrent"
      /\ sm.settled = "pending"
      /\ task \in sm.seeking
      /\ sm' = [sm EXCEPT !.frames = frames, !.failed = failed, !.seeking = seeking,
                          !.irregular = IF outcome = "ok" THEN @ ELSE @ + 1,
                          !.next = IF more THEN @ + 1 ELSE @,
                          !.claims = IF more THEN [@ EXCEPT ![sm.next + 1] = @ + 1] ELSE @,
                          !.sought = IF more
                                     THEN Append(@, concurrentTime(sm.next, sm.n, sm.durationMs))
                                     ELSE @,
                          !.settled = IF outcome = "seekError" THEN "rejected"
                                      ELSE IF seeking = {} THEN "resolved" ELSE "pending"]
      /\ UNCHANGED <<sh, rs, fn, videoUrl, useConcurrent, preloaded, containerWidth,
                     fullFrameMeta, poolKey, frameData, spriteData, isLoading,
                     store, now, faults, calls>>

\* mutant of ConcurrentSeekEnd: every worker counts the tasks by itself
ConcurrentSeekEnd_ownCounter(task, outcome) ==
  LET frames == IF Captured(outcome)
                THEN [sm.frames EXCEPT ![task + 1] = CanvasOf(FnVideo, task, sm.n, outcome)]
                ELSE sm.frames
      failed == IF Captured(outcome) THEN sm.failed ELSE sm.failed \cup {task}
      more == task + 1 < sm.n
      seeking == (sm.seeking \ {task}) \cup (IF more THEN {task + 1} ELSE {})
  IN  /\ sm.mode = "concurrent"
      /\ sm.settled = "pending"
      /\ task \in sm.seeking
      /\ sm' = [sm EXCEPT !.frames = frames, !.failed = failed, !.seeking = seeking,
                          !.irregular = IF outcome = "ok" THEN @ ELSE @ + 1,
                          !.next = IF more THEN Max(@, task + 2) ELSE @,
                          !.claims = IF more THEN [@ EXCEPT ![task + 2] = @ + 1] ELSE @,
                          !.sought = IF more
                                     THEN Append(@, concurrentTime(task + 1, sm.n, sm.durationMs))
                                     ELSE @,
                          !.settled = IF seeking = {} THEN "resolved" ELSE "pending"]
      /\ UNCHANGED <<sh, rs, fn, videoUrl, useConcurrent, preloaded, containerWidth,
                     fullFrameMeta, poolKey, frameData, spriteData, isLoading,
                     store, now, faults, calls>>

\* one turn of a worker's loop from the end of its seek on (265-301), the
\* next task it takes (255-260), and the code after Promise.all when it was
\* the last worker to finish (305-320).  The workers are interchangeable:
\* seeking holds the task of each running worker.
ConcurrentSeekEnd(task, outcome) ==
  LET frames == IF Captured(outcome)
                THEN [sm.frames EXCEPT ![task + 1] = CanvasOf(FnVideo, task, sm.n, outcome)]
                ELSE sm.frames
      failed == IF Captured(outcome) THEN sm.failed ELSE sm.failed \cup {task}
      more == sm.next < sm.n
      seeking == (sm.seeking \ {task}) \cup (IF more THEN {sm.next} ELSE {})
  IN  /\ sm.mode = "concurrent"
      /\ sm.settled = "pending"
      /\ task \in sm.seeking
      /\ sm' = [sm EXCEPT !.frames = frames, !.failed = failed, !.seeking = seeking,
                          !.irregular = IF outcome = "ok" THEN @ ELSE @ + 1,
                          !.next = IF more THEN @ + 1 ELSE @,
                          !.claims = IF more THEN [@ EXCEPT ![sm.next + 1] = @ + 1] ELSE @,
                          !.sought = IF more
                                     THEN Append(@, concurrentTime(sm.next, sm.n, sm.durationMs))
                                     ELSE @,
                          !.settled = IF seeking = {} THEN "resolved" ELSE "pending"]
      /\ UNCHANGED <<sh, rs, fn, videoUrl, useConcurrent, preloaded, containerWidth,
                     fullFrameMeta, poolKey, frameData, spriteData, isLoading,
                     store, now, faults, calls>>

ConcurrentSeekSettle(task, outcome) ==
  SeekBudget(outcome) /\ ConcurrentSeekEnd(task, outcome)

InitSampler ==
  /\ Init
  /\ videoUrl = FnVideo
  /\ preloaded = FALSE
  /\ store = EmptyStore

\* the pools whose wait the runs start with: every video ready, or one, or
\* a whole pool of 3 or of 6 still without metadata
NotReadySets == {{}, {0}, 0..2, 0..(DefaultConcurrency - 1)}

NextSampler ==
  \/ \E d \in SamplerDurations, fc \in SerialCounts : SerialStart(d, fc)
  \/ \E d \in SamplerDurations, fc \in ConcurrentCounts, w \in NotReadySets :
        ConcurrentStart(d, fc, w)
  \/ \E mode \in {"serial", "concurrent"} : LoadError(mode)
  \/ \E outcome \in SeekOutcomes : SerialSeekSettle(outcome)
  \/ SerialDelayTimer
  \/ \E v \in 0..(DefaultConcurrency - 1) : PoolLoadedMetadata(v)
  \/ \E v \in 0..(DefaultConcurrency - 1) : PoolTimer(v)
  \/ \E task \in 0..(MaxFrames * 2), outcome \in SeekOutcomes :
        ConcurrentSeekSettle(task, outcome)

SpecSampler == InitSampler /\ [][NextSampler]_vars

(***************************************************************************)
(* The samplers with their timers.  Every wait of a run has a timer next   *)
(* to its event: the seek promise (setTimeout at 85-96 and 283-292), the   *)
(* pool wait (235) and the delay of a short source (99).  A timer that has *)
(* been set fires, which is the fairness stated here; no event of the      *)
(* video has to arrive.  Any number of samples may go wrong.               *)
(***************************************************************************)
LiveDurations == {3000, 10000}
LiveCounts == {1, 3}
LiveTasks == 0..4
LivePool == 0..2

\* mutant of SerialSeekTimer: the seek promise has no timer
SerialSeekTimer_none ==
  /\ FALSE
  /\ UNCHANGED vars

\* 85-96: the timer of the serial seek promise fires first
SerialSeekTimer ==
  /\ sm.mode = "serial"
  /\ SerialSeekEnd("timeout")

\* 283-292: the timer of a worker's seek promise fires first
ConcurrentSeekTimer(task) ==
  /\ sm.mode = "concurrent"
  /\ ConcurrentSeekEnd(task, "timeout")

NextSamplerLive ==
  \/ \E d \in LiveDurations, fc \in LiveCounts : SerialStart(d, fc)
  \/ \E d \in LiveDurations, fc \in LiveCounts, w \in NotReadySets :
        ConcurrentStart(d, fc, w)
  \/ \E o \in SeekOutcomes \ {"timeout"} : SerialSeekEnd(o)
  \/ SerialSeekTimer
  \/ SerialDelayTimer
  \/ \E v \in LivePool : PoolLoadedMetadata(v)
  \/ \E v \in LivePool : PoolTimer(v)
  \/ \E task \in LiveTasks, o \in SeekOutcomes \ {"timeout"} : ConcurrentSeekEnd(task, o)
  \/ \E task \in LiveTasks : ConcurrentSeekTimer(task)

SpecSamplerLive ==
  /\ InitSampler
  /\ [][NextSamplerLive]_vars
  /\ WF_vars(SerialSeekTimer)
  /\ WF_vars(SerialDelayTimer)
  /\ \A v \in LivePool : WF_vars(PoolTimer(v))
  /\ \A task \in LiveTasks : WF_vars(ConcurrentSeekTimer(task))

(***************************************************************************)
(* Claims about the pool manager                                           *)
(***************************************************************************)
Extracting(c) == calls[c].pc \in {"probe", "extract"}
Stepped(c) == calls'[c] # calls[c]

\* C1: for one (source, strategy) key at most one extraction is in flight:
\* no two calls with the same key have a Sampler run outstanding at once.
C1_OneExtractionPerKey ==
  \A c, d \in Calls :
    (c # d /\ Extracting(c) /\ Extracting(d)) => KeyOf(calls[c]) # KeyOf(calls[d])

\* C2: when initPreciseFramePool is called twice in succession with the
\* same source and strategy (the first call built the pool and has finished,
\* the second found it in memory), the second call returns the value the
\* first call returned.
C2_SecondCallReturnsSameValue ==
  (/\ calls[1].pc = "done" /\ calls[1].outcome = "built"
   /\ calls[2].pc = "done" /\ calls[2].outcome = "early"
   /\ KeyOf(calls[1]) = KeyOf(calls[2]))
  => calls[2].ret = calls[1].ret

\* C3: the in-memory pool and the displayed sprite are empty or were built
\* for the current (source, strategy): a build that resolves after the
\* source or strategy changed is discarded.
C3_PoolIsForCurrentKey ==
  /\ fullFrameMeta # Null => poolKey = CurrentKey
  /\ spriteData # Null =>
       \A p \in DOMAIN spriteData.url :
         spriteData.url[p] # Blank => spriteData.url[p].v = videoUrl


\* the steps call c takes with both records read and within their windows
BothValid(c) ==
  /\ calls[c].pc = "getOrig"
  /\ calls[c].metaAge >= 0 /\ calls[c].metaAge < 7200000
  /\ calls[c].spriteAge >= 0 /\ calls[c].spriteAge < 3600000

\* at least one record was missing (NoAge) or expired at its read
SomeInvalid(c) ==
  /\ calls[c].pc = "getOrig"
  /\ \/ calls[c].metaAge < 0 \/ calls[c].metaAge >= 7200000
     \/ calls[c].spriteAge < 0 \/ calls[c].spriteAge >= 3600000

NoSamplerNoPacker(rec) == rec.nProbe = 0 /\ rec.nFull = 0 /\ rec.nPack = 0

\* C4: when both records of the key were read within their expiry windows,
\* the call adopts the cached FramePool record as the in-memory pool and from
\* then on runs no Sampler, no Packer and writes nothing to the store.
C4_ValidPairIsAdopted ==
  [][\A c \in Calls :
       /\ (BothValid(c) /\ Stepped(c)) =>
            /\ calls[c].cachedMeta # Null
            /\ fullFrameMeta' = calls[c].cachedMeta
            /\ calls'[c].outcome = "hit"
            /\ calls'[c].ret.meta = calls[c].cachedMeta
            /\ calls'[c].pc \in {"sampleGet", "done"}
            /\ NoSamplerNoPacker(calls'[c])
            /\ store' = store
       /\ (calls[c].outcome = "hit" /\ Stepped(c)) =>
            /\ NoSamplerNoPacker(calls'[c])
            /\ calls'[c].wok = {}
            /\ store' = store]_vars

C4_Witness ==
  \E c \in Calls :
    /\ calls[c].pc = "done" /\ calls[c].outcome = "hit"
    /\ fullFrameMeta = calls[c].ret.meta
    /\ frameData # <<>>

\* C5: when a record was missing or expired at its read, the call adopts
\* nothing: it issues a Sampler run; a call that built the pool ran one full
\* extraction and one Packer run, its pool carries a time of this session,
\* and every write that succeeded left the new record in the store.
C5_MissRebuildsBoth ==
  [][\A c \in Calls :
       /\ (SomeInvalid(c) /\ Stepped(c)) =>
            /\ calls'[c].pc \in {"probe", "extract"}
            /\ calls'[c].outcome = "none"
            /\ fullFrameMeta' = fullFrameMeta
            /\ store' = store
       /\ (calls[c].pc = "writeMeta" /\ Stepped(c)) =>
            /\ calls[c].nFull = 1 /\ calls[c].nPack = 1
            /\ fullFrameMeta' = calls[c].metaData
            /\ fullFrameMeta'.timestamp >= 0 /\ fullFrameMeta'.timestamp <= now
            /\ calls'[c].spriteDataCache.timestamp = now
            /\ calls'[c].spriteDataCache.spriteInfo = calls[c].sprite
            /\ "meta" \in calls'[c].wok =>
                 store'[videoMetaCacheKey(calls[c].keyUrl, calls[c].isConcurrent)]
                   = calls[c].metaData
       /\ (calls[c].pc = "writeSprite" /\ Stepped(c)) =>
            /\ "sprite" \in calls'[c].wok =>
                 store'[spriteCacheKey(calls[c].keyUrl, calls[c].isConcurrent)]
                   = calls[c].spriteDataCache
            /\ faults' = faults => "sprite" \in calls'[c].wok
       /\ (calls'[c].outcome = "built" /\ Stepped(c)) =>
            calls'[c].nFull = 1 /\ calls'[c].nPack = 1]_vars

\* Scenario C: the FramePool record was valid, the SpriteSheet record expired,
\* and the call rebuilt and rewrote both
C5_Witness ==
  \E c \in Calls :
    /\ calls[c].pc = "done" /\ calls[c].outcome = "built"
    /\ calls[c].missed = {"sprite"}
    /\ {"meta", "sprite"} \subseteq calls[c].wok
    /\ calls[c].ret.meta.timestamp >= 0
    /\ store[videoMetaCacheKey(calls[c].keyUrl, calls[c].isConcurrent)] = calls[c].ret.meta
    /\ store[spriteCacheKey(calls[c].keyUrl, calls[c].isConcurrent)].spriteInfo
         = calls[c].ret.sprite

\* C6: at the read step a FramePool record is accepted iff
\* now - timestamp < 7,200,000 and a SpriteSheet record iff
\* now - timestamp < 3,600,000; an accepted record stays, and a record that
\* is not accepted is no longer in the store when the read step finishes.
C6_ExpiryWindows ==
  [][\A c \in Calls :
       LET mk == videoMetaCacheKey(calls[c].keyUrl, calls[c].isConcurrent)
           sk == spriteCacheKey(calls[c].keyUrl, calls[c].isConcurrent)
       IN  /\ (calls[c].pc = "getMeta" /\ Stepped(c)) =>
                /\ (calls'[c].cachedMeta # Null)
                     <=> (store[mk] # Null /\ now - store[mk].timestamp < 7200000)
                /\ calls'[c].cachedMeta # Null =>
                     calls'[c].cachedMeta = store[mk] /\ store' = store
                /\ calls'[c].cachedMeta = Null => store'[mk] = Null
           /\ (calls[c].pc = "getSprite" /\ Stepped(c)) =>
                /\ (calls'[c].cachedSprite # Null)
                     <=> (store[sk] # Null /\ now - store[sk].timestamp < 3600000)
                /\ calls'[c].cachedSprite # Null =>
                     calls'[c].cachedSprite = store[sk] /\ store' = store
                /\ calls'[c].cachedSprite = Null => store'[sk] = Null]_vars

\* a SpriteSheet record read at the age of its window + 1 ms was a miss and
\* is gone, next to a FramePool record that was accepted
C6_Witness ==
  \E c \in Calls :
    /\ calls[c].pc = "getOrig"
    /\ calls[c].spriteAge = 3600000 + 1
    /\ calls[c].cachedSprite = Null
    /\ store[spriteCacheKey(calls[c].keyUrl, calls[c].isConcurrent)] = Null
    /\ calls[c].metaAge = 3600000 + 1
    /\ calls[c].cachedMeta # Null

\* C7: when the Sampler rejects during a build, the build has written no
\* record and writes none, the in-memory pool is empty, and frameData is
\* empty and spriteData null when initializeVideoFrames returns.
C7_RejectLeavesNothing ==
  [][\A c \in Calls :
       (Stepped(c) /\ calls'[c].outcome = "failed") =>
         /\ Extracting(c)
         /\ calls[c].wok = {} /\ calls'[c].wok = {}
         /\ calls'[c].pc = "done"
         /\ store' = store
         /\ fullFrameMeta' = Null
         /\ frameData' = <<>>
         /\ spriteData' = Null]_vars

\* the full extraction of a call rejected after its probe had resolved
C7_Witness ==
  \E c \in Calls :
    /\ calls[c].pc = "done" /\ calls[c].outcome = "failed"
    /\ calls[c].nProbe = 1 /\ calls[c].nFull = 1 /\ calls[c].nPack = 0
    /\ calls[c].wok = {}
    /\ fullFrameMeta = Null /\ frameData = <<>> /\ spriteData = Null

\* C8: when a build has completed and the SpriteSheet record could not be
\* persisted, the in-memory pool is set and the sampleFramesFromPool that
\* followed, on a container of positive width, produced a non-empty list
\* (no other call ran in the session).
C8_UsableWithoutPersistedSprite ==
  \A c \in Calls :
    (/\ calls[c].pc = "done" /\ calls[c].outcome = "built"
     /\ "sprite" \notin calls[c].wok
     /\ containerWidth > 0
     /\ \A d \in Calls \ {c} : calls[d].pc = "idle")
    => (fullFrameMeta # Null /\ frameData # <<>>)


(***************************************************************************)
(* Claims about the storage helper (SpecStore)                             *)
(***************************************************************************)
\* C9: setItemWithQuotaHandling never throws and calls setItem at most
\* twice; a first write that succeeds returns true without an eviction pass;
\* a first write that fails on capacity is followed by one eviction pass and
\* exactly one retry, whose success decides the value returned; any other
\* failure returns false at once.
C9_AtMostOneRetryNeverThrows ==
  /\ ~sh.threw
  /\ sh.attempts <= 2 /\ sh.passes <= 1
  /\ sh.pc = "done" =>
       /\ sh.first = "ok" =>
            /\ sh.result = "true" /\ sh.attempts = 1 /\ sh.passes = 0
            /\ store = [sh.before EXCEPT ![sh.key] = sh.value]
       /\ sh.first = "quota" =>
            /\ sh.attempts = 2 /\ sh.passes = 1
            /\ sh.result = (IF sh.second = "ok" THEN "true" ELSE "false")
       /\ sh.first = "error" =>
            /\ sh.result = "false" /\ sh.attempts = 1 /\ sh.passes = 0
            /\ store = sh.before
       /\ sh.result = "true" => store[sh.key] = sh.value

\* Scenario D: the first write failed on capacity, the pass evicted an entry
\* and the retry succeeded
C9_Witness ==
  /\ sh.pc = "done" /\ sh.first = "quota" /\ sh.second = "ok"
  /\ sh.passDone /\ sh.result = "true"
  /\ \E k \in Keys \ {sh.key} : sh.before[k] # Null /\ store[k] = Null
  /\ store[sh.key] = sh.value

\* C10: an eviction pass that ran to its end on a non-empty store has
\* removed at least one entry and at least 20% of all the keys the store
\* held, and no entry it kept carries a smaller timestamp than one it removed.
C10_EvictsFifthOfAllKeys ==
  (sh.pc = "set2" /\ sh.passDone) =>
    LET all == {k \in Keys : sh.before[k] # Null}
        removed == {k \in all : store[k] = Null}
    IN  all # {} =>
          /\ Cardinality(removed) >= 1
          /\ 5 * Cardinality(removed) >= Cardinality(all)
          /\ \A r \in removed, k \in all \ removed :
               HasTimestamp(sh.before[k]) =>
                 sh.before[r].timestamp <= sh.before[k].timestamp


(***************************************************************************)
(* Claims about the viewport resize (SpecResize)                           *)
(***************************************************************************)
\* a step of the resize path: the event, an invocation of the throttled
\* function, or the end of a resample it started
ResizeStep ==
  \/ rs'.events # rs.events
  \/ rs'.invoked # rs.invoked
  \/ rs'.runs # rs.runs

\* some call is building the pool: it has issued a Sampler run and its
\* initPreciseFramePool has not returned yet
BuildInFlight ==
  \E c \in Calls :
    calls[c].pc \in {"probe", "extract", "writeMeta", "writeSprite", "writeOrig"}

\* C11: a resize event only ever runs the resampler: no step of the resize
\* path starts a call, issues a Sampler or Packer run, writes to the store
\* or touches the in-memory pool.
C11_ResizeOnlyResamples ==
  [][ResizeStep =>
       /\ calls' = calls
       /\ store' = store
       /\ fullFrameMeta' = fullFrameMeta
       /\ isLoading' = isLoading]_vars

\* a resize to 700 px has resampled the pool of source "a" into 5 frames
C11_Witness ==
  /\ rs.events >= 1 /\ rs.invoked >= 1
  /\ \E r \in Resamples : rs.runs[r].pc = "done"
  /\ containerWidth = 700
  /\ Len(frameData) = 5
  /\ \A c \in Calls : calls[c].nFull <= 1

\* C12: an invocation of the resize-triggered resample while a pool build is
\* in flight is a no-op: frameData and spriteData stay, no resample is
\* started and nothing is left deferred.
C12_ResampleSkippedDuringBuild ==
  [][(rs'.invoked # rs.invoked /\ BuildInFlight) =>
       /\ frameData' = frameData
       /\ spriteData' = spriteData
       /\ rs'.runs = rs.runs
       /\ rs'.throttle # "pending"]_vars


\* C13: sampleFramesFromPool leaves frameData and spriteData exactly as they
\* were when there is no in-memory pool, when there is no sprite record, or
\* when the layout container has zero width.
C13_ResampleNoOpCases ==
  [][/\ (rs'.invoked # rs.invoked /\ ~isLoading /\ fullFrameMeta = Null) =>
          /\ frameData' = frameData /\ spriteData' = spriteData
          /\ rs'.runs = rs.runs
     /\ \A r \in Resamples :
          (rs.runs[r].pc = "sampleGet" /\ rs'.runs[r].pc = "done"
             /\ (StoreGet(store, rs.runs[r].skey) = Null \/ rs.runs[r].scw = 0)) =>
            /\ frameData' = frameData /\ spriteData' = spriteData]_vars


(***************************************************************************)
(* Claims about the pure functions (SpecFn)                                *)
(***************************************************************************)
\* C14: for a pool of totalFrames >= 1 and every actualCount in
\* 1..totalFrames the selected source indices start at 0; with more than one
\* selected the last is totalFrames - 1; with one selected it is index 0 only
\* (the denominator is then 1, not 0).
C14_FirstAndLastIndex ==
  fn.op = "resample" =>
    LET sel == fn.selectedIndexes
        total == fn.meta.totalFrames
    IN  /\ Len(sel) \in 1..total
        /\ sel[1] = 0
        /\ Len(sel) > 1 => sel[Len(sel)] = total - 1
        /\ Len(sel) = 1 => sel = <<0>>
        /\ \A k \in 1..Len(sel) : sel[k] \in 0..(total - 1)

C14_Witness ==
  /\ fn.op = "resample"
  /\ fn.meta.totalFrames = 23
  /\ Len(fn.selectedIndexes) = 12
  /\ fn.selectedIndexes[1] = 0
  /\ fn.selectedIndexes[12] = 22

\* C15: when the display needs as many frames as the pool holds
\* (actualCount = totalFrames = N) the selected source indices are
\* 0, 1, ..., N-1, each once and in increasing order.
C15_FullPoolSelectsEveryIndex ==
  (fn.op = "resample" /\ Len(fn.selectedIndexes) = fn.meta.totalFrames) =>
    fn.selectedIndexes = [k \in 1..fn.meta.totalFrames |-> k - 1]

Painted ==
  IF fn.env = "noContext" THEN {}
  ELSE {i \in 0..(Len(fn.frames) - 1) : Paintable(fn.frames[i + 1])}

\* cols clamped to [1, F]
ClampedCols == Max(1, Min(fn.cols, Len(fn.frames)))

\* C17: calculateFramePosition maps a source index, clamped to
\* totalFrames - 1, to the row and col with row * cols + col = index and col
\* in 0..cols-1; for totalFrames 23 and cols 10, index 22 is row 2, col 2; and
\* the cell it returns for index i is the cell createSpriteImage painted frame
\* i into for the same cols.
C17_PositionIsPaintedCell ==
  /\ (fn.op = "position" /\ fn.index >= 0 /\ fn.cols >= 1 /\ fn.totalFrames >= 1) =>
       LET index == Min(fn.index, fn.totalFrames - 1)
       IN  /\ fn.position.col \in 0..(fn.cols - 1)
           /\ fn.position.row >= 0
           /\ fn.position.row * fn.cols + fn.position.col = index
  /\ (fn.op = "position" /\ fn.index = 22 /\ fn.cols = 10 /\ fn.totalFrames = 23) =>
       (fn.position.row = 2 /\ fn.position.col = 2)
  /\ (fn.op = "pack" /\ fn.sheet # EmptySheet) =>
       \A i \in Painted :
         LET position == calculateFramePosition(i, fn.sheet.cols,
                           VideoOf(FnVideo).videoWidth, VideoOf(FnVideo).videoHeight,
                           Len(fn.frames))
         IN  /\ position.row < fn.sheet.rows
             /\ position.col < fn.sheet.cols
             /\ fn.sheet.spriteUrl[position.row * fn.sheet.cols + position.col + 1]
                  = fn.frames[i + 1]

C17_Witness ==
  /\ fn.op = "position"
  /\ fn.index = 22 /\ fn.cols = 10 /\ fn.totalFrames = 23
  /\ fn.position.row = 2 /\ fn.position.col = 2

\* the sheet has ClampedCols columns and the least number of rows that holds
\* all F frames, so every index 0..F-1 has a cell inside it
SheetHoldsAllFrames ==
  /\ fn.sheet.cols = ClampedCols
  /\ fn.sheet.rows * ClampedCols >= Len(fn.frames)
  /\ (fn.sheet.rows - 1) * ClampedCols < Len(fn.frames)
  /\ \A i \in 0..(Len(fn.frames) - 1) :
       (i \div fn.sheet.cols) * fn.sheet.cols + (i % fn.sheet.cols) + 1
         \in 1..Len(fn.sheet.spriteUrl)

\* C18 as stated: for a non-empty frames array of length F and any requested
\* cols, when at least one frame is painted the result has cols = C (cols
\* clamped to [1, F]) and rows = ceil(F / C).
C18_PaintedSheetShape ==
  (fn.op = "pack" /\ Len(fn.frames) >= 1 /\ Painted # {}) => SheetHoldsAllFrames

\* C18, amended: the same when at least one frame is painted and the
\* encoding of the sheet succeeds.
C18_EncodedSheetShape ==
  (fn.op = "pack" /\ Len(fn.frames) >= 1 /\ Painted # {} /\ fn.env = "ok") =>
    SheetHoldsAllFrames

C18_Witness ==
  /\ fn.op = "pack"
  /\ Len(fn.frames) = 23 /\ fn.cols = 10 /\ fn.env = "ok"
  /\ Cardinality(Painted) = 23
  /\ fn.sheet.rows = 3 /\ fn.sheet.cols = 10

\* C19: createSpriteImage never rejects, and it returns the empty-sheet
\* sentinel exactly when no frame was painted (empty input, every entry
\* missing, zero-sized or undrawable, no drawing context) or the encoding
\* failed.
C19_SentinelIffNothingPaintedOrEncoded ==
  fn.op = "pack" =>
    /\ fn.settled = "resolved"
    /\ fn.sheet = EmptySheet <=> (Painted = {} \/ fn.env = "encodeFailed")

C19_Witness ==
  /\ fn.op = "pack"
  /\ Len(fn.frames) = 4
  /\ \A k \in 1..4 : fn.frames[k] \in {Hole, ZeroSized}
  /\ fn.env = "ok"
  /\ fn.settled = "resolved"
  /\ fn.sheet = EmptySheet


(***************************************************************************)
(* Claims about the pool manager and the packer's sentinel (Spec)          *)
(***************************************************************************)
\* C20: when the Packer returned the empty-sheet sentinel during a pool
\* build, no DisplayFrame is produced from it: frameData is never a non-empty
\* list while the sprite handed to the template is the sentinel's empty image,
\* in the session of the build or after a later cache hit on its record.
C20_SentinelIsNotRendered ==
  ~ /\ frameData # <<>>
    /\ spriteData # Null
    /\ spriteData.url = EmptySheet.spriteUrl
    /\ spriteData.cols = EmptySheet.cols


(***************************************************************************)
(* Claims about the frame samplers (SpecSampler)                           *)
(***************************************************************************)
Sampling == sm.mode \in {"serial", "concurrent"} /\ sm.n >= 1 /\ sm.durationMs > 0
\* the loop, or every worker, has ended
RunOver ==
  /\ sm.mode \in {"serial", "concurrent"}
  /\ sm.seeking = {} /\ sm.warming = {} /\ sm.delaying = "none"

\* t < u for sample times t, u
TimeBefore(t, u) == t[1] * u[2] < u[1] * t[2]
\* u - t >= ms for sample times t, u
GapAtLeast(t, u, ms) == u[1] * t[2] - t[1] * u[2] >= ms * t[2] * u[2]

\* C21: in both strategies, for a sampled frame count n >= 1 and a duration
\* > 0, sample i is sought at t_i = (i / n) * duration: the times do not
\* decrease, t_0 = 0, every t_i is before the duration, all n samples are
\* sought, and the two strategies use the same schedule.
C21_SampleSchedule ==
  Sampling =>
    /\ \A k \in 1..Len(sm.sought) :
         /\ sm.sought[k][1] * sm.n = (k - 1) * sm.durationMs * sm.sought[k][2]
         /\ TimeBefore(sm.sought[k], <<sm.durationMs, 1>>)
         /\ sm.sought[k] = serialTime(k - 1, sm.n, sm.durationMs)
         /\ sm.sought[k] = concurrentTime(k - 1, sm.n, sm.durationMs)
    /\ Len(sm.sought) >= 1 => sm.sought[1][1] = 0
    /\ \A k \in 1..(Len(sm.sought) - 1) : ~TimeBefore(sm.sought[k + 1], sm.sought[k])
    /\ Len(sm.sought) <= sm.n
    /\ RunOver => Len(sm.sought) = sm.n

C21_Witness ==
  /\ sm.mode = "concurrent"
  /\ sm.settled = "resolved"
  /\ sm.n = 10
  /\ Len(sm.sought) = 10
  /\ sm.sought[10] = <<9 * sm.durationMs, 10>>

\* C22: for a source shorter than 10 s and a requested frameCount >= 1 the
\* number of sampled frames is max(5, floor(duration / 0.5) + 1), never more
\* than the requested frameCount, and consecutive sample times are at least
\* 0.5 s apart.
C22_ShortSourceReduction ==
  (Sampling /\ sm.durationMs < 10000) =>
    /\ sm.n = Min(sm.frameCount, Max(5, (sm.durationMs \div 500) + 1))
    /\ \A k \in 1..(Len(sm.sought) - 1) :
         GapAtLeast(sm.sought[k], sm.sought[k + 1], 500)

\* C23: serial extraction of a 10 s source with frameCount 45 samples exactly
\* 21 frames, every two consecutive sample times at least 0.5 s apart.
C23_ScenarioA ==
  (sm.mode = "serial" /\ sm.durationMs = 10000 /\ sm.frameCount = 45) =>
    /\ sm.n = 21
    /\ (sm.settled = "resolved" /\ sm.irregular = 0) => Len(sm.frames) = 21
    /\ \A k \in 1..(Len(sm.sought) - 1) :
         GapAtLeast(sm.sought[k], sm.sought[k + 1], 500)

\* the last sample before i that was captured, -1 when there is none
PreviousCaptured(i) ==
  LET before == {j \in 0..(i - 1) : j \notin sm.failed}
  IN  IF before = {} THEN 0 - 1 ELSE CHOOSE j \in before : \A h \in before : h <= j

\* C24: in the serial strategy a seek or draw failure of one sample neither
\* shortens nor shifts the result: the returned array has one entry per
\* sample, entry i is the frame captured for sample i, and the entry of a
\* failed sample is the previous successfully captured frame.
C24_SerialFailureKeepsSlots ==
  (sm.mode = "serial" /\ sm.settled = "resolved" /\ sm.irregular = Cardinality(sm.failed)) =>
    /\ Len(sm.frames) = sm.n
    /\ \A i \in 0..(sm.n - 1) :
         /\ i \notin sm.failed => sm.frames[i + 1] = Frame(FnVideo, i, sm.n)
         /\ (i \in sm.failed /\ PreviousCaptured(i) >= 0) =>
              sm.frames[i + 1] = Frame(FnVideo, PreviousCaptured(i), sm.n)

\* C25: in the concurrent strategy a task whose seek fails is dropped: it is
\* not sought again, the batch goes on (while the call is pending the pool
\* wait or some seek is outstanding, and the call resolves only when every
\* task has been taken and settled), the call never rejects once the metadata is there, the frames
\* array has one slot per sample, slot i is written only by task i, and the
\* slot of a failed task stays unset.
C25_ConcurrentDropsFailedTask ==
  (sm.mode = "concurrent" /\ sm.n >= 1) =>
    /\ Len(sm.frames) = sm.n
    /\ sm.settled # "rejected"
    /\ Len(sm.sought) = sm.next
    /\ sm.next <= sm.n
    /\ sm.failed \cap sm.seeking = {}
    /\ \A i \in 0..(sm.n - 1) :
         /\ sm.frames[i + 1] \in {Hole, Frame(FnVideo, i, sm.n), StaleFrame(FnVideo)}
         /\ (i \in sm.failed \/ i \in sm.seeking \/ i >= sm.next) <=> sm.frames[i + 1] = Hole
    /\ sm.settled = "pending" <=> (sm.seeking # {} \/ sm.warming # {})
    /\ sm.settled = "resolved" => sm.next = sm.n

C25_Witness ==
  /\ sm.mode = "concurrent"
  /\ sm.settled = "resolved"
  /\ sm.n = 10
  /\ sm.failed = {3}
  /\ sm.frames[4] = Hole
  /\ \A i \in (0..9) \ {3} : sm.frames[i + 1] = Frame(FnVideo, i, 10)


\* C31: in the concurrent strategy every task index is taken exactly once:
\* at every moment the tasks taken are 0 .. taskIndex - 1, each taken one
\* time, whatever the order in which the workers' seeks end; the tasks being
\* sought are among those taken; and when every worker has ended all n tasks
\* have been taken.
C31_EachTaskClaimedOnce ==
  (sm.mode = "concurrent" /\ sm.n >= 1) =>
    /\ Len(sm.claims) = sm.n
    /\ \A t \in 0..(sm.n - 1) : sm.claims[t + 1] = IF t < sm.next THEN 1 ELSE 0
    /\ sm.seeking \subseteq 0..(sm.next - 1)
    /\ Len(sm.sought) = sm.next
    /\ RunOver => (sm.next = sm.n /\ \A t \in 0..(sm.n - 1) : sm.claims[t + 1] = 1)

C31_Witness ==
  /\ sm.mode = "concurrent"
  /\ RunOver
  /\ sm.n = 10 /\ sm.poolSize = 6
  /\ sm.irregular = MaxSeekFaults
  /\ \A t \in 0..9 : sm.claims[t + 1] = 1

\* C32: in the concurrent strategy the pool has P = min(L, n) videos, L being
\* the concurrency limit for a source of 10 s or more and min(limit, 3) for a
\* shorter one; never more than P seeks are outstanding, and a step issues at
\* most one seek, in place of one that has just ended, once the workers run.
C32_PoolSizeBoundsSeeks ==
  /\ [](  (sm.mode = "concurrent" /\ sm.n >= 1) =>
            /\ sm.poolSize = Min(IF sm.durationMs >= 10000 THEN DefaultConcurrency
                                 ELSE Min(DefaultConcurrency, 3), sm.n)
            /\ sm.warming \subseteq 0..(sm.poolSize - 1)
            /\ Cardinality(sm.seeking) <= sm.poolSize
            /\ sm.warming # {} => sm.seeking = {})
  /\ [][(sm.mode = "concurrent" /\ sm.seeking # {}) =>
          /\ Cardinality(sm'.seeking \ sm.seeking) <= 1
          /\ sm'.seeking # sm.seeking => Cardinality(sm.seeking \ sm'.seeking) = 1]_vars

C32_Witness ==
  /\ sm.mode = "concurrent"
  /\ sm.durationMs = 3000 /\ sm.n = 7
  /\ sm.poolSize = 3
  /\ Cardinality(sm.seeking) = 3
  /\ sm.next = 5

\* C33: in the serial strategy at most one seek is outstanding, the seek of
\* sample i is issued only when every sample before it has been drawn or
\* skipped, and the frames come in sample order.
C33_SerialOneSeekInOrder ==
  (sm.mode = "serial" /\ sm.n >= 1) =>
    /\ Cardinality(sm.seeking) <= 1
    /\ sm.seeking \subseteq {sm.next}
    /\ sm.delaying # "none" => sm.seeking = {}
    /\ (sm.seeking # {} \/ sm.delaying # "none") =>
          /\ Len(sm.frames) + Cardinality(sm.failed) = sm.next
          /\ Len(sm.sought) = sm.next + 1
    /\ sm.failed \subseteq 0..(sm.next - 1)
    /\ \A t \in 0..(sm.n - 1) : sm.claims[t + 1] <= 1
    /\ \A k \in 1..Len(sm.frames), l \in 1..Len(sm.frames) :
          (k < l /\ sm.frames[k] # StaleFrame(FnVideo) /\ sm.frames[l] # StaleFrame(FnVideo))
            => sm.frames[k].i < sm.frames[l].i

C33_Witness ==
  /\ sm.mode = "serial"
  /\ sm.durationMs = 3000 /\ sm.n = 7
  /\ sm.delaying = "ok"
  /\ sm.next = 6
  /\ sm.failed = {2}
  /\ Len(sm.frames) = 5


\* the waits of a run
SeekPending(t) == sm.mode \in {"serial", "concurrent"} /\ t \in sm.seeking
PoolWaitPending(v) == sm.mode = "concurrent" /\ v \in sm.warming
DelayPending == sm.mode = "serial" /\ sm.delaying # "none"

\* C34: once the metadata has loaded every extraction ends, whether or not
\* any seeked or loadedmetadata event arrives: every seek wait, every pool
\* wait and every delay is over after finitely many steps, the run ends and
\* the call is then resolved or rejected; and a seek that ended by its timer
\* is drawn like one that ended by seeked (the canvas holds whatever the
\* video showed).
C34_EveryWaitIsBounded ==
  /\ Sampling ~> (RunOver /\ sm.settled \in {"resolved", "rejected"})
  /\ \A t \in LiveTasks : SeekPending(t) ~> ~SeekPending(t)
  /\ \A v \in LivePool : PoolWaitPending(v) ~> ~PoolWaitPending(v)
  /\ DelayPending ~> ~DelayPending
  /\ [][(SerialSeekTimer /\ sm.durationMs >= 10000) =>
          sm'.frames = Append(sm.frames, StaleFrame(FnVideo))]_vars
  /\ [][(DelayPending /\ sm.delaying = "timeout" /\ SerialDelayTimer) =>
          sm'.frames = Append(sm.frames, StaleFrame(FnVideo))]_vars
  /\ [][\A t \in LiveTasks : ConcurrentSeekTimer(t) =>
          sm'.frames = [sm.frames EXCEPT ![t + 1] = StaleFrame(FnVideo)]]_vars

\* a concurrent run all of whose seeks ended by their timers
C34_Witness ==
  /\ sm.mode = "concurrent"
  /\ RunOver
  /\ sm.settled = "resolved"
  /\ sm.n = 5 /\ sm.poolSize = 3
  /\ sm.irregular = 5
  /\ \A k \in 1..5 : sm.frames[k] = StaleFrame(FnVideo)


C27_StoredSheetShape ==
  \A k \in Keys :
    (k[1] = "sprite" /\ store[k] # Null /\ store[k].spriteInfo # EmptySheet) =>
      LET total == store[k].totalFrames
          cols == Min(total, 10)
      IN  /\ store[k].spriteInfo.cols = cols
          /\ store[k].spriteInfo.rows = CeilDiv(total, cols)


\* C28: the loading indicator covers every pool build in flight: whenever a
\* call is between the start of its extraction and its completion, isLoading
\* is true, also when two builds overlap.
C28_LoadingCoversBuilds == BuildInFlight => isLoading


\* every call that was started has left initPreciseFramePool
PoolCallsCompleted ==
  /\ \E c \in Calls : calls[c].pc # "idle"
  /\ \A c \in Calls : calls[c].pc \in {"idle", "sampleGet", "done"}

\* C29: no endless spinner: once every started initPreciseFramePool call has
\* completed, by cache hit, by a successful build or by a failure, isLoading
\* is false; and the step in which a build fails leaves frameData empty.
C29_NoEndlessSpinner ==
  /\ [](PoolCallsCompleted => ~isLoading)
  /\ [][(\E c \in Calls : calls'[c].outcome = "failed" /\ calls[c].outcome # "failed")
          => (frameData' = <<>> /\ ~isLoading')]_vars


\* a record of the given kind is written in this step
RecordWritten(kind) ==
  \E k \in Keys : k[1] = kind /\ store'[k] # Null /\ store'[k] # store[k]

\* C30: within one build the steps keep their order: the Packer runs only
\* when the full extraction (and the probe before it) has returned; no cache
\* write happens before the Packer has returned; the FramePool record is
\* written at the first write and the SpriteSheet record only at the second,
\* after the first has returned; and a build sets the in-memory pool only
\* after its Packer has returned.
C30_BuildStepsInOrder ==
  [][\A c \in Calls :
       (Stepped(c) /\ calls'[c].nProbe + calls'[c].nFull >= 1) =>
         /\ calls'[c].nPack > calls[c].nPack =>
               /\ calls[c].pc = "extract" /\ calls[c].nFull = 1 /\ calls[c].nPack = 0
               /\ ~(calls'[c].pc \in {"probe", "extract"})
         /\ store' # store =>
               /\ calls[c].nPack = 1
               /\ calls[c].pc \in {"writeMeta", "writeSprite", "writeOrig"}
         /\ RecordWritten("meta") => calls[c].pc = "writeMeta"
         /\ RecordWritten("sprite") => calls[c].pc = "writeSprite"
         /\ calls'[c].pc = "writeSprite" => calls[c].pc = "writeMeta"
         /\ (fullFrameMeta' # fullFrameMeta /\ fullFrameMeta' # Null) =>
               /\ calls[c].nPack = 1
               /\ fullFrameMeta' = calls[c].metaData]_vars

\* a build that probed, extracted and packed once has written both records
C30_Witness ==
  \E c \in Calls :
    /\ calls[c].outcome = "built"
    /\ calls[c].nProbe = 1 /\ calls[c].nFull = 1 /\ calls[c].nPack = 1
    /\ {"meta", "sprite"} \subseteq calls[c].wok
    /\ store[videoMetaCacheKey(calls[c].keyUrl, calls[c].isConcurrent)] # Null
    /\ store[spriteCacheKey(calls[c].keyUrl, calls[c].isConcurrent)] # Null

(***************************************************************************)
(* Further claims about the packer and the resampler (SpecFn)              *)
(***************************************************************************)
\* C35: createSpriteImage keeps the layout whatever entries are missing: in
\* the sheet it returns, the cell of row floor(i / cols) and column i mod cols
\* holds frame i when that frame is valid, however many entries before it are
\* missing, zero-sized or undrawable, and is blank when entry i is one of
\* these; the cells after the last entry are blank.
C35_HolesDoNotShiftLayout ==
  (fn.op = "pack" /\ fn.sheet # EmptySheet) =>
    /\ \A i \in 0..(Len(fn.frames) - 1) :
         LET row == i \div fn.sheet.cols
             col == i % fn.sheet.cols
             cell == fn.sheet.spriteUrl[row * fn.sheet.cols + col + 1]
         IN  /\ row < fn.sheet.rows
             /\ Paintable(fn.frames[i + 1]) => cell = fn.frames[i + 1]
             /\ ~Paintable(fn.frames[i + 1]) => cell = Blank
    /\ \A p \in (Len(fn.frames) + 1)..Len(fn.sheet.spriteUrl) :
         fn.sheet.spriteUrl[p] = Blank

\* 23 entries of which every fourth from the first is valid, packed in 10 columns
C35_Witness ==
  /\ fn.op = "pack"
  /\ Len(fn.frames) = 23 /\ fn.cols = 10 /\ fn.env = "ok"
  /\ fn.frames[2] = ZeroSized /\ fn.frames[3] = Broken /\ fn.frames[4] = Hole
  /\ fn.sheet.rows = 3 /\ fn.sheet.cols = 10
  /\ fn.sheet.spriteUrl[2] = Blank
  /\ fn.sheet.spriteUrl[21] = Frame(FnVideo, 20, 23)

(***************************************************************************)
(* Further claims about the pool build (Spec)                              *)
(***************************************************************************)
\* C36: a pool build without caller-supplied metadata calls the Sampler
\* twice, first for 1 frame, which is what the probe extracts, then for
\* totalFrames frames, which is what the full extraction extracts; a build
\* with caller-supplied metadata skips the probe and calls it once.
C36_ProbeThenFullExtraction ==
  \A c \in Calls :
    calls[c].outcome = "built" =>
      /\ calls[c].nFull = 1
      /\ calls[c].nProbe = IF preloaded THEN 0 ELSE 1
      /\ ~preloaded =>
            /\ calls[c].probeFrames = 1
            /\ calls[c].fullFrames = calls[c].ret.meta.totalFrames

\* C37: every display frame that sampleFramesFromPool emits lies inside the
\* sprite it is shown from: its row is below the sprite's rows, its col below
\* the sprite's cols, and its source index below the number of cells of the
\* sheet (which is at least the number of frames packed into it).
C37_DisplayFramesInsideSprite ==
  (frameData # <<>> /\ spriteData # Null /\ spriteData.url # <<>>) =>
    \A k \in 1..Len(frameData) :
      /\ frameData[k].row < spriteData.rows
      /\ frameData[k].col < spriteData.cols
      /\ frameData[k].dataThumb[1] < Len(spriteData.url)

\* C38: when a build's two cache writes both return true, the step that
\* writes the SpriteSheet record leaves the store with the FramePool record
\* the build wrote just before as well as the SpriteSheet record: the
\* eviction pass of the second write does not remove the first record.
C38_SpriteWriteKeepsPoolRecord ==
  [][\A c \in Calls :
       LET metaKey == videoMetaCacheKey(calls[c].keyUrl, calls[c].isConcurrent)
           spriteKey == spriteCacheKey(calls[c].keyUrl, calls[c].isConcurrent)
       IN  (/\ calls[c].pc = "writeSprite" /\ calls'[c].pc = "writeOrig"
            /\ {"meta", "sprite"} \subseteq calls'[c].wok
            /\ store[metaKey] = calls[c].metaData) =>
             /\ store'[spriteKey] # Null
             /\ store'[metaKey] = calls[c].metaData]_vars

\* C39: for every pool of at least one frame and every container width the
\* source indices the resampler selects are strictly increasing (no frame of
\* the pool is shown twice) and each lies in 0..totalFrames-1.
C39_SelectionStrictlyIncreasing ==
  (fn.op = "resample" /\ fn.meta.totalFrames >= 1) =>
    /\ \A k \in 1..Len(fn.selectedIndexes) :
          fn.selectedIndexes[k] \in 0..(fn.meta.totalFrames - 1)
    /\ \A k \in 1..(Len(fn.selectedIndexes) - 1) :
          fn.selectedIndexes[k] < fn.selectedIndexes[k + 1]


====
